---- MODULE Spec2Model ----
(***************************************************************************)
(* Model of the ERP <-> chat reconciliation engine.                        *)
(*   server/api.go            SyncEmployees (A->B, "erp-to-mm")            *)
(*                            SyncUsers     (B->A, "mm-to-erp")            *)
(*   server/erpnext/client.go the HR-side REST client                      *)
(*                                                                         *)
(* Identifiers are modelled as integers: an employee's Name is its index   *)
(* in emps, a chat account's Id is its index in users.  The empty string   *)
(* in custom_chat_id is 0, an id that names no account is -1.              *)
(* A loop iteration of a sync handler is one action; the remote calls it   *)
(* makes are recorded, in order, in lastCalls.                             *)
(***************************************************************************)
EXTENDS Integers, Sequences, FiniteSets, TLC

\* ------------------------------------------------------------------ bounds
\* The two directories hold at most MaxRecords records in all at the start
MaxRecords == 3
MaxRuns == 2
MaxFaults == 2
\* Remote employee lists of up to MaxK full pages are enumerated
MaxK == 21
\* OnConfigurationChange runs at most MaxConfigChanges times
MaxConfigChanges == 2
\* Names of up to MaxNameLen characters are slugified, and a few long ones
MaxNameLen == 2
\* Passwords of up to MaxPwLen characters are asked for
MaxPwLen == 9
\* ServeHTTP serves at most MaxRequests requests
MaxRequests == 2
\* The directories hold at most MaxFrontRecords records when requests and
\* slash commands are served, and in the runs of two records
MaxFrontRecords == 2

\* ------------------------------------------------------- program constants
pageSize == 200
maxPages == 20
perPage == 200
maxUserPage == 15
probeRetries == 5
searchLimit == 10
usernameMin == 3
usernameMax == 22
emptyNameRandom == 6
padRandom == 3
minPasswordLength == 8

VARIABLES
  emps,        \* Directory A: sequence of Employee records
  users,       \* Directory B: sequence of chat accounts (model.User)
  erpUsers,    \* emails that have an ERPNext login user
  fieldExists, \* the custom_chat_id custom field exists on the HR side
  roleExists,  \* the default role profile exists on the HR side
  pc,          \* position of the handler: idle, fetch, loop, done, aborted
  dir,         \* direction of the current run: "erp2mm", "mm2erp" or "none"
  list,        \* the enumerated source records (employees / allUsers)
  i,           \* loop index: number of loop iterations that passed the timeout check
  result,      \* the SyncResult accumulator
  overAt,      \* -1 while time.Since(startTime) <= maxDuration, else the number of
               \* records whose processing had started when the deadline was passed
  lastCalls,   \* remote calls issued by the last step, in order
  nCreate,     \* Create requests issued by this run on the written directory
  nUpdate,     \* UpdateEmployee requests issued by this run
  faulty,      \* some remote call of this run failed in transport
  prev,        \* summary of the previous run: direction, completeness, writes issued
  runsLeft,    \* runs that may still be started
  faultsLeft,  \* remote calls that may still fail in transport
  pg,          \* an enumeration run page by page: the locals of its loop
  slug,        \* GenerateUsername applied to a pair of names, the usernames
               \* looked up by the pre-check and those passed to CreateUser
  cfg,         \* p.erpNextClient: the field, what the handler's goroutine sees
               \* of it, and the clients the calls of the current run went through
  pw,          \* GenerateRandomPassword applied to a length
  http,        \* the requests served by ServeHTTP: who is a system admin, the
               \* status the middleware answered, the handler it passed on to
  cmd          \* the /employee slash command: the handler's client, its response

vars == <<emps, users, erpUsers, fieldExists, roleExists, pc, dir, list, i,
          result, overAt, lastCalls, nCreate, nUpdate, faulty, prev,
          runsLeft, faultsLeft, pg, cfg, slug, pw, http, cmd>>

dirVars == <<emps, users, erpUsers, fieldExists, roleExists>>

\* ------------------------------------------------------------------ helpers
Min(a, b) == IF a < b THEN a ELSE b

\* strings.ToLower on the modelled e-mail alphabet
Lower(s) == IF s = "A" THEN "a" ELSE s

\* strings.EqualFold
EqualFold(s, t) == Lower(s) = Lower(t)

\* First index from k on of a record of S with exactly this email, 0 when
\* there is none (the remote's equality filter, first match returned)
RECURSIVE FirstWithEmail(_, _, _)
FirstWithEmail(S, email, k) ==
  IF k > Len(S) THEN 0
  ELSE IF S[k].email = email THEN k
  ELSE FirstWithEmail(S, email, k + 1)

\* GenerateUsername on the modelled first names: lower-casing sends distinct
\* names to the same slug
GenerateUsername(first) ==
  CASE first = "An" -> "an"
    [] first = "AN" -> "an"
    [] OTHER -> "binh"

FirstNameOf(k) == CASE k = 1 -> "An" [] k = 2 -> "AN" [] OTHER -> "Binh"

Uname(base, n, ts) == [base |-> base, n |-> n, ts |-> ts]

\* ---------------------------------------------------------- SyncResult
EmptyResult ==
  [matched |-> 0, updated |-> 0, created |-> 0, skipped |-> 0,
   erpCreated |-> 0, erpAlready |-> 0, total |-> 0, timedOut |-> FALSE,
   lines |-> <<>>]

Line(text, idx) == [text |-> text, idx |-> idx]

\* The counters start again at every record
Count_Restart(r, c) ==
  LET z == [r EXCEPT !.matched = 0, !.updated = 0, !.created = 0, !.skipped = 0] IN
  CASE c = "matched" -> [z EXCEPT !.matched = 1]
    [] c = "updated" -> [z EXCEPT !.updated = 1]
    [] c = "created" -> [z EXCEPT !.created = 1]
    [] c = "skipped" -> [z EXCEPT !.skipped = 1]
    [] OTHER -> z

Count(r, c) ==
  CASE c = "matched" -> [r EXCEPT !.matched = @ + 1]
    [] c = "updated" -> [r EXCEPT !.updated = @ + 1]
    [] c = "created" -> [r EXCEPT !.created = @ + 1]
    [] c = "skipped" -> [r EXCEPT !.skipped = @ + 1]
    [] OTHER -> r

\* ------------------------------------------------- Directory B (chat side)
\* Every remote call returns a set of possible results; a result with
\* fault = TRUE is a transport/application failure of the call itself.
Faults(S) == IF faultsLeft > 0 THEN S ELSE {}

B(b) == IF b THEN 1 ELSE 0

\* The account made without its email
ChatAccount_NoEmail(id, email, username, first) ==
  [id |-> id, email |-> "", username |-> username, first |-> first,
   isBot |-> FALSE, deleteAt |-> 0]

ChatAccount(id, email, username, first) ==
  [id |-> id, email |-> email, username |-> username, first |-> first,
   isBot |-> FALSE, deleteAt |-> 0]

\* p.API.GetUser(id): the account, or an error when no account has the id
MM_GetUser(U, id) ==
  {IF id \in 1..Len(U) THEN [err |-> FALSE, user |-> id, fault |-> FALSE]
                       ELSE [err |-> TRUE, user |-> 0, fault |-> FALSE]}
  \cup Faults({[err |-> TRUE, user |-> 0, fault |-> TRUE]})

\* p.API.GetUserByEmail(email): first account with exactly this email
MM_GetUserByEmail(U, email) ==
  LET k == FirstWithEmail(U, email, 1) IN
  {[err |-> (k = 0), user |-> k, fault |-> FALSE]}
  \cup Faults({[err |-> TRUE, user |-> 0, fault |-> TRUE]})

\* p.API.SearchUsers(term, Limit: 10): a fuzzy term search; which accounts it
\* hits is the collaborator's business, so every account may come back and
\* all filtering is left to the caller
MM_SearchUsers(U, term) ==
  {[err |-> FALSE, hits |-> [k \in 1..Min(Len(U), searchLimit) |-> k], fault |-> FALSE]}
  \cup Faults({[err |-> TRUE, hits |-> <<>>, fault |-> TRUE]})

UsernameTaken(U, username) == \E k \in 1..Len(U) : U[k].username = username

\* p.API.CreateUser: "none", an error whose text contains "username", or
\* another error
MM_CreateUser(U, username) ==
  IF UsernameTaken(U, username)
  THEN {[err |-> "username", fault |-> FALSE]}
       \cup Faults({[err |-> "other", fault |-> TRUE]})
  ELSE {[err |-> "none", fault |-> FALSE]}
       \cup Faults({[err |-> "other", fault |-> TRUE],
                    [err |-> "username", fault |-> TRUE]})

\* ---------------------------------------------- Directory A (HR side)
Employee(name, email, status, chat, first) ==
  [name |-> name, email |-> email, status |-> status, chat |-> chat,
   first |-> first]

\* api.go 277-280 / 585-588: the callers pass &erpnext.Employee{Name,
\* CustomChatID}; every other field of the struct has its zero value
PartialEmployee(name, chat) == Employee(name, "", "", chat, "")

\* The request body holding every field of the struct that was passed
UpdateBody_WholeRecord(employee) == employee

\* client.go 330-332: the request body holds custom_chat_id alone
UpdateBody(employee) == [chat |-> employee.chat]

\* The HR system's PUT /api/resource/Employee/<name>: the fields of the
\* body replace those of the stored record, the others stay
ApplyPut(rec, body) ==
  [f \in DOMAIN rec |-> IF f \in DOMAIN body THEN body[f] ELSE rec[f]]

\* Client.UpdateEmployee (client.go 325-380)
UpdateEmployee(E, name, chat) ==
  {[err |-> FALSE,
    emps |-> [E EXCEPT ![name] = ApplyPut(@, UpdateBody(PartialEmployee(name, chat)))],
    fault |-> FALSE]}
  \cup Faults({[err |-> TRUE, emps |-> E, fault |-> TRUE]})

\* Client.GetEmployeeByEmail: first employee whose company_email equals email
GetEmployeeByEmail(E, email) ==
  {[err |-> FALSE, emp |-> FirstWithEmail(E, email, 1), fault |-> FALSE]}
  \cup Faults({[err |-> TRUE, emp |-> 0, fault |-> TRUE]})

\* The new record takes the place of the directory's records
CreateEmployee_Replace(E, email, first, chat) ==
  {[err |-> FALSE, emps |-> <<Employee(1, email, "Active", chat, first)>>,
    fault |-> FALSE]}

\* Client.CreateEmployee: the HR system assigns the new record's name
CreateEmployee(E, email, first, chat) ==
  {[err |-> FALSE,
    emps |-> Append(E, Employee(Len(E) + 1, email, "Active", chat, first)),
    fault |-> FALSE]}
  \cup Faults({[err |-> TRUE, emps |-> E, fault |-> TRUE]})

\* Client.GetUserByEmail (ERPNext login user)
ERP_GetUserByEmail(X, email) ==
  {[err |-> FALSE, found |-> (email \in X), fault |-> FALSE]}
  \cup Faults({[err |-> TRUE, found |-> FALSE, fault |-> TRUE]})

\* Client.CreateUser (ERPNext login user)
ERP_CreateUser(X, email) ==
  {[err |-> FALSE, erpUsers |-> X \cup {email}, fault |-> FALSE]}
  \cup Faults({[err |-> TRUE, erpUsers |-> X, fault |-> TRUE]})

\* Outcome of one loop iteration
Out(calls, line, count, U, E, X, fault, nc, nu) ==
  [calls |-> calls, line |-> line, count |-> count, erp |-> "none",
   users |-> U, emps |-> E, erpUsers |-> X, nf |-> fault, nc |-> nc, nu |-> nu]

\* A remote call and how it ended: "ok", "err", or for CreateUser the kind
\* of error ("username": the text of the error contains "username")
Call(op, res) == <<op, res>>

\* A call on a username: the username is kept with it
CallWith(op, res, username) == <<op, res, username>>

Res(r) == IF r.err THEN "err" ELSE "ok"

CreateRes(cr) == IF cr.err = "none" THEN "ok" ELSE cr.err

\* ------------------------------------------- SyncEmployees, one iteration
\* api.go 515-531: the two skip checks
SkipReasonEmployee(e) ==
  IF e.email = "" THEN "Skipped (No Email)"
  ELSE IF e.status # "Active" THEN "Skipped (Inactive)"
  ELSE ""

\* The liveness test with its comparison inverted (DeleteAt != 0)
RefIsLive_Inverted(g, U) == ~g.err /\ g.user # 0 /\ U[g.user].deleteAt # 0

\* api.go 537: appErr == nil && user != nil && user.DeleteAt == 0
RefIsLive(g, U) == ~g.err /\ g.user # 0 /\ U[g.user].deleteAt = 0

\* api.go 573-579: first search hit with the employee's email, ignoring case,
\* that is not soft-deleted; 0 when there is none
RECURSIVE PickSearchHitFrom(_, _, _, _)
PickSearchHitFrom(U, hits, email, j) ==
  IF j > Len(hits) THEN 0
  ELSE IF EqualFold(U[hits[j]].email, email) /\ U[hits[j]].deleteAt = 0 THEN hits[j]
  ELSE PickSearchHitFrom(U, hits, email, j + 1)

\* The first hit taken whatever its email and state
PickSearchHit_First(U, hits, email) == IF hits = <<>> THEN 0 ELSE hits[1]

PickSearchHit(U, hits, email) == PickSearchHitFrom(U, hits, email, 1)

\* The test without the DeleteAt comparison
UsableExisting_AnyState(U, existing) == existing # 0

\* api.go 584: existingUser != nil && existingUser.DeleteAt == 0
UsableExisting(U, existing) == existing # 0 /\ U[existing].deleteAt = 0

\* api.go 613-622: the username pre-check loop.  A lookup error of any kind
\* is read as "the username is free".  calls: the lookups made, in order.
RECURSIVE ProbeUsername(_, _, _, _)
ProbeUsername(U, base, retries, username) ==
  IF retries >= probeRetries
  THEN {[username |-> username, calls |-> <<>>, fault |-> FALSE]}
  ELSE IF UsernameTaken(U, username)
       THEN {[r EXCEPT !.calls = <<CallWith("GetUserByUsername", "ok", username)>> \o @] :
               r \in ProbeUsername(U, base, retries + 1, Uname(base, retries + 1, FALSE))}
            \cup Faults({[username |-> username,
                          calls |-> <<CallWith("GetUserByUsername", "err", username)>>,
                          fault |-> TRUE]})
       ELSE {[username |-> username,
              calls |-> <<CallWith("GetUserByUsername", "err", username)>>,
              fault |-> FALSE]}

\* The retry taken on any error of the first Create
IsUsernameConflict_Any(err) == err # "none"

\* api.go 645: strings.Contains(appErr.Error(), "username")
IsUsernameConflict(err) == err = "username"

\* api.go 683-691: SendCredentialEmail, TRUE when the mail was sent
SendCredentialEmail == {TRUE} \cup Faults({FALSE})

\* The record counted as created only when the mail was sent
CountAfterMail_OnlyIfSent(sent) == IF sent THEN "created" ELSE "none"

\* api.go 686-693: emailSuccess picks the text of the line; CreatedCount is
\* incremented either way
CountAfterMail(sent) == "created"

\* api.go 665-697: after the account exists, write the cross-reference and
\* try to deliver the credentials
AfterCreate(e, U, E, X, calls, fl, username, nc) ==
  LET U2 == Append(U, ChatAccount(Len(U) + 1, e.email, username, e.first)) IN
  UNION {
    LET c2 == Append(calls, Call("UpdateEmployee", Res(w))) IN
    IF w.err
    THEN {Out(c2, "User Created but Update Failed", "none", U2, E, X, fl + 1, nc, 1)}
    ELSE { IF sent
           THEN Out(Append(c2, Call("SendMail", "ok")), "New User Created (Email sent)",
                    CountAfterMail(sent), U2, w.emps, X, fl, nc, 1)
           ELSE Out(Append(c2, Call("SendMail", "err")),
                    "New User Created (Email delivery attempted)",
                    CountAfterMail(sent), U2, w.emps, X, fl + 1, nc, 1)
           : sent \in SendCredentialEmail }
    : w \in UpdateEmployee(E, e.name, Len(U) + 1) }

\* api.go 605-663: create a chat account, retrying once on a username error
CreateNew(e, U, E, X, calls, fl) ==
  UNION {
    LET f1 == fl + B(pr.fault) IN
    UNION {
      LET c1 == (calls \o pr.calls) \o <<CallWith("CreateUser", CreateRes(cr), pr.username)>>
          f2 == f1 + B(cr.fault)
      IN
      IF cr.err = "none"
      THEN AfterCreate(e, U, E, X, c1, f2, pr.username, 1)
      ELSE IF IsUsernameConflict(cr.err)
      THEN LET unique == Uname(pr.username.base, pr.username.n, TRUE) IN
           UNION {
             LET c2 == Append(c1, CallWith("CreateUser", CreateRes(cr2), unique)) IN
             IF cr2.err = "none"
             THEN AfterCreate(e, U, E, X, c2, f2, unique, 2)
             ELSE {Out(c2, "User Creation Failed (retry)", "none", U, E, X,
                       f2 + B(cr2.fault), 2, 0)}
             : cr2 \in MM_CreateUser(U, unique) }
      ELSE {Out(c1, "User Creation Failed", "none", U, E, X, f2, 1, 0)}
      : cr \in MM_CreateUser(U, pr.username) }
    : pr \in ProbeUsername(U, GenerateUsername(e.first), 0,
                           Uname(GenerateUsername(e.first), 0, FALSE)) }

\* api.go 584-603: link the employee to the account that was found
LinkExisting(e, U, E, X, calls, fl, existing) ==
  { LET c1 == Append(calls, Call("UpdateEmployee", Res(w))) IN
    IF w.err
    THEN Out(c1, "Update Failed", "none", U, E, X, fl + 1, 0, 1)
    ELSE Out(c1, "Mapped to existing user", "updated", U, w.emps, X, fl, 0, 1)
    : w \in UpdateEmployee(E, e.name, existing) }

\* api.go 583-698
Decide(e, U, E, X, calls, fl, existing) ==
  IF UsableExisting(U, existing)
  THEN LinkExisting(e, U, E, X, calls, fl, existing)
  ELSE CreateNew(e, U, E, X, calls, fl)

\* api.go 559: appErr != nil || existingUser == nil
NeedsSearch(g) == g.err \/ g.user = 0

\* api.go 551-581: exact lookup by email, then the search fallback
Rediscover(e, U, E, X, calls, fl) ==
  UNION {
    LET c1 == Append(calls, Call("GetUserByEmail", Res(g))) IN
    IF NeedsSearch(g)
    THEN UNION {
           Decide(e, U, E, X, Append(c1, Call("SearchUsers", Res(s))),
                  fl + B(g.fault) + B(s.fault),
                  IF ~s.err /\ Len(s.hits) > 0
                  THEN PickSearchHit(U, s.hits, e.email) ELSE 0)
           : s \in MM_SearchUsers(U, e.email) }
    ELSE Decide(e, U, E, X, c1, fl, g.user)
    : g \in MM_GetUserByEmail(U, e.email) }

\* The record given up when its reference names no live account
OnStaleReference_Fatal(e, U, E, X, g) ==
  {Out(<<Call("GetUser", Res(g))>>, "Mapped User Missing", "none", U, E, X,
       B(g.fault), 0, 0)}

\* api.go 545-556: the reference names no live account, or the lookup
\* failed; the iteration goes on to the lookup by email
OnStaleReference(e, U, E, X, g) ==
  Rediscover(e, U, E, X, <<Call("GetUser", Res(g))>>, B(g.fault))

\* api.go 515-698: everything one loop iteration does after the timeout check
SyncEmployeeRecord(e, U, E, X) ==
  IF SkipReasonEmployee(e) # ""
  THEN {Out(<<>>, SkipReasonEmployee(e), "skipped", U, E, X, 0, 0, 0)}
  ELSE IF e.chat # 0
  THEN UNION {
         IF RefIsLive(g, U)
         THEN {Out(<<Call("GetUser", "ok")>>, "Already Mapped", "matched",
                   U, E, X, 0, 0, 0)}
         ELSE OnStaleReference(e, U, E, X, g)
         : g \in MM_GetUser(U, e.chat) }
  ELSE Rediscover(e, U, E, X, <<>>, 0)

\* ----------------------------------------------- SyncUsers, one iteration
\* The skip checks without the bot check
SkipReasonUser_NoBot(u) ==
  IF u.email = "" THEN "Skipped (No Email)"
  ELSE IF u.deleteAt > 0 THEN "Skipped (Deleted)"
  ELSE ""

\* api.go 227-252: the three skip checks
SkipReasonUser(u) ==
  IF u.email = "" THEN "Skipped (No Email)"
  ELSE IF u.isBot THEN "Skipped (Bot)"
  ELSE IF u.deleteAt > 0 THEN "Skipped (Deleted)"
  ELSE ""

\* The login user created without asking whether there is one
ErpUserStep_NoLookup(u, U, E, X, calls, fl, count, isNew, nc, nu) ==
  {[Out(Append(calls, Call("ERP.CreateUser", "ok")), "Employee & ERPNext User Created",
        count, U, E, X \cup {u.email}, fl, nc, nu) EXCEPT !.erp = "created"]}

\* api.go 331-400: the ERPNext login user of the account.  The employee
\* counter was already incremented; count carries it.
ErpUserStep(u, U, E, X, calls, fl, count, isNew, nc, nu) ==
  UNION {
    LET c1 == Append(calls, Call("ERP.GetUserByEmail", Res(x))) IN
    IF x.err
    THEN {Out(c1, IF isNew THEN "Employee Created, User Check Failed"
                           ELSE "Employee Updated, User Check Failed",
              count, U, E, X, fl + 1, nc, nu)}
    ELSE IF x.found
    THEN {[Out(c1, IF isNew THEN "Employee Created, ERPNext User Already Exists"
                            ELSE "Already Mapped, ERPNext User Exists",
               count, U, E, X, fl, nc, nu) EXCEPT !.erp = "already"]}
    ELSE { IF c.err
           THEN Out(Append(c1, Call("ERP.CreateUser", "err")),
                    IF isNew THEN "Employee Created, ERPNext User Creation Failed"
                             ELSE "Employee Updated, ERPNext User Creation Failed",
                    count, U, E, X, fl + 1, nc, nu)
           ELSE [Out(Append(c1, Call("ERP.CreateUser", "ok")),
                     IF isNew THEN "Employee & ERPNext User Created"
                              ELSE "Employee Updated, ERPNext User Created",
                     count, U, E, c.erpUsers, fl, nc, nu) EXCEPT !.erp = "created"]
           : c \in ERP_CreateUser(X, u.email) }
    : x \in ERP_GetUserByEmail(X, u.email) }

\* api.go 269: employee.CustomChatID != user.Id
NeedsUpdate(emp, u) == emp.chat # u.id

\* The new employee built without the account's id
NewEmployee_NoReference(u) ==
  [company_email |-> u.email, first_name |-> u.first, gender |-> "Male",
   date_of_birth |-> "2000-01-01", date_of_joining |-> "2000-01-01",
   status |-> "Active", custom_chat_id |-> 0]

\* api.go 304-313: the employee built for an account with no employee.
\* LastName is copied the same way as FirstName; an account of the model
\* has the one name field first.
NewEmployee(u) ==
  [company_email |-> u.email, first_name |-> u.first, gender |-> "Male",
   date_of_birth |-> "2000-01-01", date_of_joining |-> "2000-01-01",
   status |-> "Active", custom_chat_id |-> u.id]

\* client.go 254-264: the request body of CreateEmployee
CreateEmployeeBody(employee) ==
  [doctype |-> "Employee", company_email |-> employee.company_email,
   first_name |-> employee.first_name, gender |-> employee.gender,
   date_of_birth |-> employee.date_of_birth,
   date_of_joining |-> employee.date_of_joining, status |-> employee.status,
   custom_chat_id |-> employee.custom_chat_id]

\* api.go 227-400
SyncUserRecord(u, U, E, X) ==
  IF SkipReasonUser(u) # ""
  THEN {Out(<<>>, SkipReasonUser(u), "skipped", U, E, X, 0, 0, 0)}
  ELSE UNION {
    LET c1 == <<Call("GetEmployeeByEmail", Res(g))>> IN
    IF g.err
    THEN {Out(c1, "Error", "none", U, E, X, 1, 0, 0)}
    ELSE IF g.emp # 0
    THEN IF NeedsUpdate(E[g.emp], u)
         THEN UNION {
                LET c2 == Append(c1, Call("UpdateEmployee", Res(w))) IN
                IF w.err
                THEN {Out(c2, "Update Failed", "none", U, E, X, 1, 0, 1)}
                ELSE ErpUserStep(u, U, w.emps, X, c2, 0, "updated", FALSE, 0, 1)
                : w \in UpdateEmployee(E, E[g.emp].name, u.id) }
         ELSE ErpUserStep(u, U, E, X, c1, 0, "matched", FALSE, 0, 0)
    ELSE UNION {
           LET c2 == Append(c1, CallWith("CreateEmployee", Res(c),
                                         CreateEmployeeBody(NewEmployee(u)))) IN
           IF c.err
           THEN {Out(c2, "Creation Failed", "none", U, E, X, 1, 1, 0)}
           ELSE ErpUserStep(u, U, c.emps, X, c2, 0, "created", TRUE, 1, 0)
           : c \in CreateEmployee(E, NewEmployee(u).company_email,
                                   NewEmployee(u).first_name,
                                   NewEmployee(u).custom_chat_id) }
    : g \in GetEmployeeByEmail(E, u.email) }

\* ------------------------------------------------------------ enumeration
\* The end-of-data test with <= for <
IsLastPage_Leq(n) == n <= pageSize

\* client.go 170: len(employeeResp.Data) < pageSize
IsLastPage(n) == n < pageSize

\* The loop that goes on whatever the page number
PageLimitReached_Never(page) == FALSE

\* client.go 113: the loop ends when page < maxPages fails
PageLimitReached(page) == page >= maxPages

\* client.go 105-181: GetEmployees pages through the remote list S
RECURSIVE GetEmployeesLoop(_, _, _, _)
GetEmployeesLoop(S, page, startIdx, all) ==
  IF PageLimitReached(page) THEN all
  ELSE LET data == SubSeq(S, startIdx + 1, Min(Len(S), startIdx + pageSize)) IN
       IF IsLastPage(Len(data)) THEN all \o data
       ELSE GetEmployeesLoop(S, page + 1, startIdx + pageSize, all \o data)

\* The remote applies the status filter of the request, or ignores it
RemoteEmployees(E, honoured) ==
  IF honoured THEN SelectSeq(E, LAMBDA e : e.status = "Active") ELSE E

GetEmployees(E, honoured) ==
  {[err |-> FALSE, data |-> GetEmployeesLoop(RemoteEmployees(E, honoured), 0, 0, <<>>),
    fault |-> FALSE]}
  \cup Faults({[err |-> TRUE, data |-> <<>>, fault |-> TRUE]})

\* api.go 156-185: the GetUsers loop of SyncUsers
RECURSIVE GetUsersLoop(_, _, _)
GetUsersLoop(S, page, all) ==
  LET got == SubSeq(S, page * perPage + 1, Min(Len(S), (page + 1) * perPage))
      all2 == all \o got
  IN IF Len(got) < perPage THEN all2
     ELSE IF page + 1 > maxUserPage THEN all2
     ELSE GetUsersLoop(S, page + 1, all2)

\* The collaborator applies Active: true, or ignores it
RemoteUsers(U, honoured) ==
  IF honoured THEN SelectSeq(U, LAMBDA u : u.deleteAt = 0) ELSE U

GetUsers(U, honoured) ==
  {[err |-> FALSE, data |-> GetUsersLoop(RemoteUsers(U, honoured), 0, <<>>),
    fault |-> FALSE]}
  \cup Faults({[err |-> TRUE, data |-> <<>>, fault |-> TRUE]})

\* -------------------------------------------------------- schema bootstrap
\* The outcomes of the check-then-create sequence, given what the handler
\* does on an error (abort).  A create request is answered "ok", "err", or
\* "exists" when the object was made by someone else after the check; the
\* client returns an error for every status other than 200 / 201
\* (client.go 504-507, 618-620).
EnsureOutcomes(exists, checkCall, createCall, abort) ==
  (IF exists
   THEN {[abort |-> FALSE, exists |-> TRUE, calls |-> <<Call(checkCall, "ok")>>]}
   ELSE {[abort |-> FALSE, exists |-> TRUE,
          calls |-> <<Call(checkCall, "ok"), Call(createCall, "ok")>>]}
        \cup Faults({[abort |-> abort, exists |-> FALSE,
                      calls |-> <<Call(checkCall, "ok"), Call(createCall, "err")>>],
                     [abort |-> abort, exists |-> TRUE,
                      calls |-> <<Call(checkCall, "ok"), Call(createCall, "exists")>>]}))
  \cup Faults({[abort |-> abort, exists |-> exists, calls |-> <<Call(checkCall, "err")>>]})

\* The bootstrap that goes on after an error
EnsureExists_Continue(exists, checkCall, createCall) ==
  EnsureOutcomes(exists, checkCall, createCall, FALSE)

\* api.go 90-121 / 436-467 (field) and 123-146 (role profile): check, then
\* create when missing; any error aborts the handler
EnsureExists(exists, checkCall, createCall) ==
  EnsureOutcomes(exists, checkCall, createCall, TRUE)

EnsureField(exists) == EnsureExists(exists, "CheckCustomFieldExists", "CreateCustomField")

EnsureRole(exists) == EnsureExists(exists, "CheckRoleProfileExists", "CreateRoleProfile")

\* GenerateRandomPassword is not being applied
PwOff == [pc |-> "off", n |-> 0, out |-> <<>>]

\* No request is being served
HttpOff == [admins |-> {}, left |-> 0, status |-> 0, user |-> 0, next |-> "none"]

\* No slash command is being handled
CmdOff == [pc |-> "off", client |-> 0, type |-> "", text |-> <<>>, calls |-> <<>>]

\* ------------------------------------------------------- GenerateUsername
\* A string is a sequence of characters, a character a one-letter string or
\* the name of a letter outside ASCII: "<e'>" is e with acute, "<E'>" its
\* capital, "<ss>" the sharp s, "<han>" a letter no table knows.
Lowers == {"a", "d", "e", "r", "s", "u", "x"}

Digits == {"1", "7"}

\* plugin.go 200: the charset of randomString, cut down to two characters
RandChars == {"x", "7"}

\* plugin.go 199-209
RandomStrings(n) == [1..n -> RandChars]

\* strings.ToLower, character by character
ToLowerChar(c) ==
  CASE c = "A" -> "a"
    [] c = "<E'>" -> "<e'>"
    [] OTHER -> c

\* plugin.go 160-196: one character through the replacement table
RemoveAccentsChar(c) ==
  CASE c = "<e'>" -> <<"e">>
    [] c = "<ss>" -> <<"s", "s">>
    [] OTHER -> <<c>>

RECURSIVE removeAccents(_)
removeAccents(str) ==
  IF str = <<>> THEN <<>>
  ELSE RemoveAccentsChar(Head(str)) \o removeAccents(Tail(str))

\* plugin.go 131-132: [^a-z0-9] becomes an underscore
ReplaceSpecial(str) ==
  [k \in 1..Len(str) |-> IF str[k] \in Lowers \cup Digits THEN str[k] ELSE "_"]

\* plugin.go 135-136: a run of underscores becomes one
RECURSIVE Collapse(_)
Collapse(str) ==
  IF Len(str) < 2 THEN str
  ELSE IF str[1] = "_" /\ str[2] = "_" THEN Collapse(Tail(str))
  ELSE <<Head(str)>> \o Collapse(Tail(str))

\* plugin.go 139: strings.Trim(username, "_")
RECURSIVE Trim(_)
Trim(str) ==
  IF str = <<>> THEN str
  ELSE IF Head(str) = "_" THEN Trim(Tail(str))
  ELSE IF str[Len(str)] = "_" THEN Trim(SubSeq(str, 1, Len(str) - 1))
  ELSE str

\* plugin.go 142-144
OrRandom(str) ==
  IF str = <<>>
  THEN {<<"u", "s", "e", "r", "_">> \o r : r \in RandomStrings(emptyNameRandom)}
  ELSE {str}

\* plugin.go 147-149
RECURSIVE PadToMin(_)
PadToMin(str) ==
  IF Len(str) >= usernameMin THEN {str}
  ELSE UNION {PadToMin((str \o <<"_">>) \o r) : r \in RandomStrings(padRandom)}

\* No limit on the length
Truncate_None(str) == str

\* plugin.go 152-154
Truncate(str) ==
  IF Len(str) > usernameMax THEN SubSeq(str, 1, usernameMax) ELSE str

\* plugin.go 117-157: the usernames GenerateUsername may return
GenerateUsernameOf(firstName, lastName) ==
  LET fullName == IF lastName # <<>> THEN (firstName \o <<".">>) \o lastName
                  ELSE firstName
      lower == [k \in 1..Len(fullName) |-> ToLowerChar(fullName[k])]
      username == Trim(Collapse(ReplaceSpecial(removeAccents(lower))))
  IN {Truncate(p) : p \in UNION {PadToMin(u) : u \in OrRandom(username)}}

\* The characters names are made of
NameChars == {"a", "1", "A", "<e'>", "<E'>", "<ss>", " ", "_", "<han>"}

Chars(c, n) == [k \in 1..n |-> c]

\* Names of up to MaxNameLen characters, and names long enough to be cut
Names ==
  UNION {[1..n -> NameChars] : n \in 0..MaxNameLen}
  \cup {Chars("a", 12), Chars("<ss>", 12), Chars("a", 21), Chars("_", 23)}

SlugOff == [pc |-> "off", first |-> <<>>, last |-> <<>>, out |-> <<>>,
            tried |-> <<>>, passed |-> <<>>]

InitSlug ==
  /\ emps = <<>>
  /\ users = <<>>
  /\ erpUsers = {}
  /\ fieldExists = TRUE
  /\ roleExists = TRUE
  /\ pc = "idle"
  /\ dir = "none"
  /\ list = <<>>
  /\ i = 0
  /\ result = EmptyResult
  /\ overAt = -1
  /\ lastCalls = <<>>
  /\ nCreate = 0
  /\ nUpdate = 0
  /\ faulty = FALSE
  /\ prev = [dir |-> "none", complete |-> FALSE, writes |-> 0]
  /\ runsLeft = 0
  /\ faultsLeft = 0
  /\ pg = [pc |-> "off", n |-> 0, page |-> 0, startIdx |-> 0, all |-> 0,
           fetches |-> 0, last |-> 0]
  /\ cfg = [client |-> 1, view |-> 1, start |-> 1, used |-> {}, made |-> 0, left |-> 0]
  /\ slug \in {[SlugOff EXCEPT !.pc = "in", !.first = f, !.last = l] :
                 f \in Names, l \in Names}
  /\ pw = PwOff
  /\ http = HttpOff
  /\ cmd = CmdOff

\* api.go 611: username := p.GenerateUsername(FirstName, LastName)
CallGenerateUsername ==
  /\ slug.pc = "in"
  /\ \E u \in GenerateUsernameOf(slug.first, slug.last) :
       slug' = [slug EXCEPT !.pc = "out", !.out = u]
  /\ UNCHANGED <<emps, users, erpUsers, fieldExists, roleExists, pc, dir, list, i,
                 result, overAt, lastCalls, nCreate, nUpdate, faulty, prev,
                 runsLeft, faultsLeft, pg, cfg, pw, http, cmd>>

NextSlug == CallGenerateUsername

SpecSlug == InitSlug /\ [][NextSlug]_vars

\* -------------------------------------- the username passed to CreateUser
\* api.go 621: fmt.Sprintf("%s_%d", ..., retries+1)
Candidate(base, n) == (base \o <<"_">>) \o <<(<<"1", "2", "3", "4", "5">>)[n]>>

\* api.go 613-622: the pre-check loop.  The first `taken` lookups find an
\* account, the next one returns an error.  Every candidate is built from a
\* new call of GenerateUsername.  tried: the usernames looked up and what
\* the lookup answered, in order.
RECURSIVE PreCheckLoop(_, _, _, _, _, _)
PreCheckLoop(firstName, lastName, retries, username, taken, tried) ==
  IF retries >= probeRetries THEN {[username |-> username, tried |-> tried]}
  ELSE IF retries >= taken
       THEN {[username |-> username, tried |-> Append(tried, <<username, "err">>)]}
       ELSE UNION {PreCheckLoop(firstName, lastName, retries + 1,
                                Candidate(base, retries + 1), taken,
                                Append(tried, <<username, "ok">>))
                   : base \in GenerateUsernameOf(firstName, lastName)}

\* ------------------------------------------------- GenerateRandomPassword
\* plugin.go 218-221: the four charsets, cut down to one character each
charsetLower == {"a"}

charsetUpper == {"A"}

charsetNumber == {"0"}

charsetSpecial == {"!"}

\* plugin.go 234
allCharset == charsetLower \cup charsetUpper \cup charsetNumber \cup charsetSpecial

\* The length that was asked for, whatever it is
FloorLength_None(length) == length

\* plugin.go 214-216
FloorLength(length) == IF length < minPasswordLength THEN minPasswordLength ELSE length

\* plugin.go 226-231: one character of each charset, in this order
OneOfEach ==
  {<<l, u, d, x>> : l \in charsetLower, u \in charsetUpper,
                    d \in charsetNumber, x \in charsetSpecial}

\* plugin.go 235-237: for i := 4; i < length; i++, on every password of P
RECURSIVE FillFrom(_, _, _)
FillFrom(P, k, length) ==
  IF k >= length THEN P
  ELSE FillFrom({Append(p, c) : p \in P, c \in allCharset}, k + 1, length)

\* How often each character occurs in p
BagOf(p) == [c \in allCharset |-> Cardinality({k \in 1..Len(p) : p[k] = c})]

\* plugin.go 240-242: rand.Shuffle with a swap of password[i] and
\* password[j] leaves the characters of the password in any order: every
\* sequence that holds the characters of a password of P, each as often
Shuffle(P) ==
  LET bags == {BagOf(p) : p \in P} IN
  UNION {{q \in [1..n -> allCharset] : BagOf(q) \in bags} : n \in {Len(p) : p \in P}}

\* plugin.go 213-245: the passwords GenerateRandomPassword may return
GenerateRandomPassword(length) ==
  LET filled == FillFrom(OneOfEach, 4, FloorLength(length)) IN
  Shuffle(filled)

\* The lengths asked for: none, negative, around the floor and above it
Lengths == {-1, 0} \cup ((minPasswordLength - 1)..MaxPwLen)

InitPassword ==
  /\ emps = <<>>
  /\ users = <<>>
  /\ erpUsers = {}
  /\ fieldExists = TRUE
  /\ roleExists = TRUE
  /\ pc = "idle"
  /\ dir = "none"
  /\ list = <<>>
  /\ i = 0
  /\ result = EmptyResult
  /\ overAt = -1
  /\ lastCalls = <<>>
  /\ nCreate = 0
  /\ nUpdate = 0
  /\ faulty = FALSE
  /\ prev = [dir |-> "none", complete |-> FALSE, writes |-> 0]
  /\ runsLeft = 0
  /\ faultsLeft = 0
  /\ pg = [pc |-> "off", n |-> 0, page |-> 0, startIdx |-> 0, all |-> 0,
           fetches |-> 0, last |-> 0]
  /\ cfg = [client |-> 1, view |-> 1, start |-> 1, used |-> {}, made |-> 0, left |-> 0]
  /\ slug = SlugOff
  /\ http = HttpOff
  /\ cmd = CmdOff
  /\ pw \in {[PwOff EXCEPT !.pc = "in", !.n = n] : n \in Lengths}

\* api.go 625: password := p.GenerateRandomPassword(12)
CallGenerateRandomPassword ==
  /\ pw.pc = "in"
  /\ \E p \in GenerateRandomPassword(pw.n) :
       pw' = [pw EXCEPT !.pc = "out", !.out = p]
  /\ UNCHANGED <<emps, users, erpUsers, fieldExists, roleExists, pc, dir, list, i,
                 result, overAt, lastCalls, nCreate, nUpdate, faulty, prev,
                 runsLeft, faultsLeft, pg, cfg, slug, http, cmd>>

NextPassword == CallGenerateRandomPassword

SpecPassword == InitPassword /\ [][NextPassword]_vars

\* ------------------------------------------------------------------- Init
Emails == {"", "a", "A", "b"}

\* The employee records a directory may hold at the start
EmpChoices ==
  {[email |-> "a", status |-> "Active", chat |-> c] : c \in {0, 1, -1}}
  \cup {[email |-> "b", status |-> "Active", chat |-> 0],
        [email |-> "A", status |-> "Active", chat |-> 0],
        [email |-> "", status |-> "Active", chat |-> 0],
        [email |-> "a", status |-> "Left", chat |-> 0]}

\* The chat accounts a directory may hold at the start
UserChoices ==
  {[email |-> "a", isBot |-> FALSE, deleteAt |-> 0],
   [email |-> "b", isBot |-> FALSE, deleteAt |-> 0],
   [email |-> "a", isBot |-> FALSE, deleteAt |-> 1],
   [email |-> "a", isBot |-> TRUE, deleteAt |-> 0],
   [email |-> "", isBot |-> FALSE, deleteAt |-> 0]}

DirectoriesUpTo(n) ==
  \E ne \in 0..n : \E nu \in 0..(n - ne) :
    \E ec \in [1..ne -> EmpChoices], uc \in [1..nu -> UserChoices] :
      /\ \A k \in 1..ne : ec[k].chat = 1 => nu >= 1
      /\ emps = [k \in 1..ne |->
                   Employee(k, ec[k].email, ec[k].status, ec[k].chat, FirstNameOf(k))]
      /\ users = [k \in 1..nu |->
                   [ChatAccount(k, uc[k].email, Uname("an", k - 1, FALSE), FirstNameOf(k))
                      EXCEPT !.isBot = uc[k].isBot, !.deleteAt = uc[k].deleteAt]]
      /\ \E fresh \in BOOLEAN :
           /\ fresh => \A k \in 1..ne : ec[k].chat = 0
           /\ fieldExists = ~fresh
           /\ roleExists = ~fresh
      /\ erpUsers = {}

InitDirectories == DirectoriesUpTo(MaxRecords)

NoRun == [dir |-> "none", complete |-> FALSE, writes |-> 0]

\* plugin.go 87-98: the client built from a complete configuration is
\* numbered from 1, a cleared client (nil) is 0.  view is the value a read of
\* the field by the handler returns: the field is written and read without
\* synchronisation, so a write is seen by the handler only after a while.
InitCfg(changes) ==
  [client |-> 1, view |-> 1, start |-> 1, used |-> {}, made |-> 0, left |-> changes]

\* The calls that go through p.erpNextClient
ErpOps == {"CheckCustomFieldExists", "CreateCustomField", "CheckRoleProfileExists",
           "CreateRoleProfile", "GetEmployees", "GetEmployeeByEmail",
           "UpdateEmployee", "CreateEmployee", "ERP.GetUserByEmail", "ERP.CreateUser"}

\* Position of the first call through p.erpNextClient, 0 when there is none
RECURSIVE FirstErpCall(_, _)
FirstErpCall(calls, k) ==
  IF k > Len(calls) THEN 0
  ELSE IF calls[k][1] \in ErpOps THEN k
  ELSE FirstErpCall(calls, k + 1)

\* The calls of a step went through the client the handler sees
Through(calls) ==
  IF FirstErpCall(calls, 1) = 0 THEN cfg
  ELSE [cfg EXCEPT !.used = @ \cup {cfg.view}]

\* GetEmployees is not being stepped through
PgOff == [pc |-> "off", n |-> 0, page |-> 0, startIdx |-> 0, all |-> 0,
          fetches |-> 0, last |-> 0]

InitRun ==
  /\ pc = "idle"
  /\ dir = "none"
  /\ list = <<>>
  /\ i = 0
  /\ result = EmptyResult
  /\ overAt = -1
  /\ lastCalls = <<>>
  /\ nCreate = 0
  /\ nUpdate = 0
  /\ faulty = FALSE
  /\ prev = NoRun

\* One run, remote calls may fail
Init ==
  /\ InitDirectories
  /\ InitRun
  /\ runsLeft = 1
  /\ faultsLeft = MaxFaults
  /\ pg = PgOff
  /\ cfg = InitCfg(0)
  /\ slug = SlugOff
  /\ pw = PwOff
  /\ http = HttpOff
  /\ cmd = CmdOff

\* Consecutive runs, every remote call succeeds
InitTwice ==
  /\ InitDirectories
  /\ InitRun
  /\ runsLeft = MaxRuns
  /\ faultsLeft = 0
  /\ pg = PgOff
  /\ cfg = InitCfg(0)
  /\ slug = SlugOff
  /\ pw = PwOff
  /\ http = HttpOff
  /\ cmd = CmdOff

\* ---------------------------------------------------------------- actions
\* Time passes during a step: the deadline may be passed while `started`
\* records have been started
Tick(started) == IF overAt >= 0 THEN {overAt} ELSE {-1, started}

\* The handler is entered: api.go 76-88 / 422-434, then the schema bootstrap
Begin(d, boots) ==
  /\ pc \in {"idle", "done", "aborted"}
  /\ runsLeft > 0
  /\ runsLeft' = runsLeft - 1
  /\ prev' = [dir |-> dir,
              complete |-> pc = "done" /\ ~faulty /\ ~result.timedOut,
              writes |-> nCreate + nUpdate]
  /\ dir' = d
  /\ list' = <<>>
  /\ i' = 0
  /\ result' = EmptyResult
  /\ nCreate' = 0
  /\ nUpdate' = 0
  /\ IF cfg.view = 0
     THEN \* api.go 84-88 / 430-434: p.erpNextClient == nil
          /\ pc' = "aborted"
          /\ lastCalls' = <<>>
          /\ faulty' = TRUE
          /\ cfg' = [cfg EXCEPT !.start = 0, !.used = {}]
          /\ UNCHANGED <<fieldExists, roleExists, faultsLeft>>
     ELSE \E b \in boots :
            /\ pc' = IF b.abort THEN "aborted" ELSE "fetch"
            /\ fieldExists' = b.field
            /\ roleExists' = b.role
            /\ lastCalls' = b.calls
            /\ faulty' = b.abort
            /\ faultsLeft' = faultsLeft - B(b.abort)
            /\ cfg' = [cfg EXCEPT !.start = cfg.view, !.used = {cfg.view}]
  /\ overAt' \in {-1, 0}
  /\ UNCHANGED <<emps, users, erpUsers, pg, slug, pw, cmd>>

\* api.go 422-467: SyncEmployees is entered
EnterSyncEmployees ==
  Begin("erp2mm",
        {[abort |-> f.abort, field |-> f.exists, role |-> roleExists, calls |-> f.calls]
           : f \in EnsureField(fieldExists)})

\* api.go 76-146: SyncUsers is entered
EnterSyncUsers ==
  Begin("mm2erp",
        UNION {
          IF f.abort
          THEN {[abort |-> TRUE, field |-> f.exists, role |-> roleExists, calls |-> f.calls]}
          ELSE {[abort |-> r.abort, field |-> f.exists, role |-> r.exists,
                 calls |-> f.calls \o r.calls] : r \in EnsureRole(roleExists)}
          : f \in EnsureField(fieldExists)})

\* The handler as the router calls it for a request that passed the middleware
StartSyncEmployees == EnterSyncEmployees /\ UNCHANGED http

StartSyncUsers == EnterSyncUsers /\ UNCHANGED http

\* Enumeration of the source directory
Fetch(d, fetched, call) ==
  /\ pc = "fetch"
  /\ dir = d
  /\ IF call \in ErpOps /\ cfg.view = 0
     THEN \* a method of a nil *Client reads c.URL
          /\ pc' = "panic"
          /\ lastCalls' = <<Call(call, "panic")>>
          /\ faulty' = TRUE
          /\ UNCHANGED <<list, faultsLeft>>
     ELSE \E r \in fetched :
            /\ pc' = IF r.err THEN "aborted" ELSE "loop"
            /\ list' = r.data
            /\ faulty' = (faulty \/ r.fault)
            /\ faultsLeft' = faultsLeft - B(r.fault)
            /\ lastCalls' = <<Call(call, Res(r))>>
  /\ cfg' = Through(<<Call(call, "ok")>>)
  /\ overAt' \in Tick(0)
  /\ UNCHANGED <<dirVars, dir, i, result, nCreate, nUpdate, prev, runsLeft, pg, slug, pw, http, cmd>>

\* api.go 469-476
FetchEmployees ==
  Fetch("erp2mm", UNION {GetEmployees(emps, h) : h \in BOOLEAN}, "GetEmployees")

\* api.go 148-191
FetchUsers ==
  Fetch("mm2erp", UNION {GetUsers(users, h) : h \in BOOLEAN}, "GetUsers")

\* The check that never finds the deadline passed
DeadlinePassed_Never == FALSE

\* api.go 213-219 / 500-506: the check at the top of every iteration
DeadlinePassed == overAt >= 0

\* The timeout line counting the record that was not started
TimeoutLine_OffByOne(idx) == Line("TIMEOUT", idx + 1)

\* The text of the timeout line names the loop index
TimeoutLine(idx) == Line("TIMEOUT", idx)

\* The record found already mapped leaves no line
AppendLine_QuietMatch(lines, text, idx) ==
  IF text = "Already Mapped" THEN lines ELSE Append(lines, Line(text, idx))

\* api.go 227-400 / 515-697: every path through the loop body ends in one
\* append of the record's line to result.UserResults
AppendLine(lines, text, idx) == Append(lines, Line(text, idx))

\* One iteration of the record loop
Iterate(d, outcomes) ==
  /\ pc = "loop"
  /\ dir = d
  /\ ~result.timedOut
  /\ i < Len(list)
  /\ IF DeadlinePassed
     THEN /\ result' = [result EXCEPT !.lines = Append(@, TimeoutLine(i)),
                                      !.timedOut = TRUE]
          /\ lastCalls' = <<>>
          /\ UNCHANGED <<dirVars, i, overAt, nCreate, nUpdate, faulty, faultsLeft,
                         pc, cfg>>
     ELSE \E o \in outcomes :
          /\ o.nf <= faultsLeft
          /\ cfg' = Through(o.calls)
          /\ IF cfg.view = 0 /\ FirstErpCall(o.calls, 1) > 0
             THEN \* the iteration runs up to its first call on the nil client
                  /\ pc' = "panic"
                  /\ lastCalls' =
                       Append(SubSeq(o.calls, 1, FirstErpCall(o.calls, 1) - 1),
                              Call(o.calls[FirstErpCall(o.calls, 1)][1], "panic"))
                  /\ users' = o.users
                  /\ nCreate' = nCreate + (Len(o.users) - Len(users))
                  /\ faulty' = TRUE
                  /\ i' = i + 1
                  /\ UNCHANGED <<emps, erpUsers, fieldExists, roleExists, result,
                                 overAt, nUpdate, faultsLeft>>
             ELSE
            /\ pc' = pc
            /\ faultsLeft' = faultsLeft - o.nf
            /\ emps' = o.emps
            /\ users' = o.users
            /\ erpUsers' = o.erpUsers
            /\ result' =
                 LET r1 == Count(result, o.count)
                     r2 == [r1 EXCEPT !.lines = AppendLine(@, o.line, i + 1)]
                 IN CASE o.erp = "created" -> [r2 EXCEPT !.erpCreated = @ + 1]
                      [] o.erp = "already" -> [r2 EXCEPT !.erpAlready = @ + 1]
                      [] OTHER -> r2
            /\ lastCalls' = o.calls
            /\ nCreate' = nCreate + o.nc
            /\ nUpdate' = nUpdate + o.nu
            /\ faulty' = (faulty \/ o.nf > 0 \/ o.nc > 1)
            /\ i' = i + 1
            /\ overAt' \in Tick(i + 1)
            /\ UNCHANGED <<fieldExists, roleExists>>
  /\ UNCHANGED <<dir, list, prev, runsLeft, pg, slug, pw, http, cmd>>

\* api.go 498-699
ProcessEmployee ==
  Iterate("erp2mm",
          IF i < Len(list) THEN SyncEmployeeRecord(list[i + 1], users, emps, erpUsers)
          ELSE {})

\* api.go 211-401
ProcessUser ==
  Iterate("mm2erp",
          IF i < Len(list) THEN SyncUserRecord(list[i + 1], users, emps, erpUsers)
          ELSE {})

\* The handler that never gets to its response
Respond_Never == FALSE /\ UNCHANGED vars

\* The total counting every line of the result
TotalProcessed_Lines(r) == Len(r.lines)

\* api.go 404 / 702: MatchedCount + UpdatedCount + CreatedCount + SkippedCount
TotalProcessed(r) == r.matched + r.updated + r.created + r.skipped

\* api.go 403-418 / 701-717: the totals are set and the result is written
Respond ==
  /\ pc = "loop"
  /\ i >= Len(list) \/ result.timedOut
  /\ pc' = "done"
  /\ result' = [result EXCEPT !.total = TotalProcessed(result)]
  /\ lastCalls' = <<>>
  /\ UNCHANGED <<dirVars, dir, list, i, overAt, nCreate, nUpdate,
                 faulty, prev, runsLeft, faultsLeft, pg, cfg, slug, pw, http, cmd>>

Next ==
  \/ StartSyncEmployees
  \/ StartSyncUsers
  \/ FetchEmployees
  \/ FetchUsers
  \/ ProcessEmployee
  \/ ProcessUser
  \/ Respond

Spec == Init /\ [][Next]_vars

SpecTwice == InitTwice /\ [][Next]_vars

\* One run over directories of MaxFrontRecords records, remote calls may fail
InitShort ==
  /\ DirectoriesUpTo(MaxFrontRecords)
  /\ InitRun
  /\ runsLeft = 1
  /\ faultsLeft = MaxFaults
  /\ pg = PgOff
  /\ cfg = InitCfg(0)
  /\ slug = SlugOff
  /\ pw = PwOff
  /\ http = HttpOff
  /\ cmd = CmdOff

SpecShort == InitShort /\ [][Next]_vars

\* The names of an employee: ones of three characters and more, some of
\* them long enough to be cut
InitCreateUser ==
  /\ emps = <<>>
  /\ users = <<>>
  /\ erpUsers = {}
  /\ fieldExists = TRUE
  /\ roleExists = TRUE
  /\ InitRun
  /\ runsLeft = 0
  /\ faultsLeft = 0
  /\ pg = PgOff
  /\ cfg = InitCfg(0)
  /\ slug \in {[SlugOff EXCEPT !.pc = "in", !.first = f, !.last = l] :
                 f \in {<<"a", "1", "a">>, <<"A", " ", "a">>, Chars("a", 12),
                        Chars("a", 21)},
                 l \in {<<>>, <<"a">>, Chars("a", 12)}}
  /\ pw = PwOff
  /\ http = HttpOff
  /\ cmd = CmdOff

\* api.go 613-663: the pre-check, the first CreateUser and, after an error
\* whose text contains "username", the second CreateUser with the suffix
\* timestamp%10000, here one of three values
CreateWithUsername ==
  /\ slug.pc = "out"
  /\ \E taken \in 0..probeRetries, err \in {"none", "username", "other"},
        stamp \in {<<"0">>, <<"4", "2">>, <<"9", "9", "9", "9">>} :
       \E pr \in PreCheckLoop(slug.first, slug.last, 0, slug.out, taken, <<>>) :
         LET uniqueUsername == (pr.username \o <<"_">>) \o stamp IN
         slug' = [slug EXCEPT !.pc = "created", !.tried = pr.tried,
                              !.passed = IF err = "username"
                                         THEN <<pr.username, uniqueUsername>>
                                         ELSE <<pr.username>>]
  /\ UNCHANGED <<emps, users, erpUsers, fieldExists, roleExists, pc, dir, list, i,
                 result, overAt, lastCalls, nCreate, nUpdate, faulty, prev,
                 runsLeft, faultsLeft, pg, cfg, pw, http, cmd>>

NextCreateUser ==
  \/ CallGenerateUsername
  \/ CreateWithUsername

SpecCreateUser == InitCreateUser /\ [][NextCreateUser]_vars

\* ------------------------------------------------ configuration changes
\* plugin.go 79-102: OnConfigurationChange stores a new client, or nil when
\* the configuration is incomplete, while a handler may be running
OnConfigurationChange ==
  /\ cfg.left > 0
  /\ \E complete \in BOOLEAN :
       cfg' = [cfg EXCEPT !.client = IF complete THEN cfg.made + 2 ELSE 0,
                          !.made = @ + 1,
                          !.left = @ - 1]
  /\ UNCHANGED <<dirVars, pc, dir, list, i, result, overAt, lastCalls, nCreate,
                 nUpdate, faulty, prev, runsLeft, faultsLeft, pg, slug, pw, http, cmd>>

\* The handler's next read of p.erpNextClient returns the stored value
SeeConfiguration ==
  /\ cfg.view # cfg.client
  /\ cfg' = [cfg EXCEPT !.view = cfg.client]
  /\ UNCHANGED <<dirVars, pc, dir, list, i, result, overAt, lastCalls, nCreate,
                 nUpdate, faulty, prev, runsLeft, faultsLeft, pg, slug, pw, http, cmd>>

\* One run, every remote call succeeds, the configuration may change
InitConfig ==
  /\ InitDirectories
  /\ InitRun
  /\ runsLeft = 1
  /\ faultsLeft = 0
  /\ pg = PgOff
  /\ cfg = InitCfg(MaxConfigChanges)
  /\ slug = SlugOff
  /\ pw = PwOff
  /\ http = HttpOff
  /\ cmd = CmdOff

NextConfig ==
  \/ Next
  \/ OnConfigurationChange
  \/ SeeConfiguration

SpecConfig == InitConfig /\ [][NextConfig]_vars

\* ------------------------------------------- GetEmployees, page by page
\* The remote holds pg.n employees; the directories play no part
InitPages ==
  /\ emps = <<>>
  /\ users = <<>>
  /\ erpUsers = {}
  /\ fieldExists = TRUE
  /\ roleExists = TRUE
  /\ InitRun
  /\ runsLeft = 0
  /\ faultsLeft = 1
  /\ cfg = InitCfg(0)
  /\ slug = SlugOff
  /\ pw = PwOff
  /\ http = HttpOff
  /\ cmd = CmdOff
  /\ pg \in {[PgOff EXCEPT !.pc = "loop", !.n = n] : n \in 0..(MaxK * pageSize)}

\* client.go 113-177: one pass of the loop body whose request succeeds
FetchPage ==
  /\ pg.pc = "loop"
  /\ ~PageLimitReached(pg.page)
  /\ LET got == Min(pageSize, pg.n - pg.startIdx) IN
       pg' = IF IsLastPage(got)
             THEN [pg EXCEPT !.pc = "done", !.all = @ + got,
                             !.fetches = @ + 1, !.last = got]
             ELSE [pg EXCEPT !.all = @ + got, !.fetches = @ + 1, !.last = got,
                             !.startIdx = @ + pageSize, !.page = @ + 1]
  /\ UNCHANGED <<dirVars, pc, dir, list, i, result, overAt, lastCalls, nCreate,
                 nUpdate, faulty, prev, runsLeft, faultsLeft, cfg, slug, pw, http, cmd>>

\* The failed request left uncounted as an end: the loop asks again
OnPageError_Retry(p) == [p EXCEPT !.fetches = @ + 1]

\* client.go 145-161: return nil, err: the loop is left, the pages collected
\* so far are not returned
OnPageError(p) == [p EXCEPT !.pc = "error", !.all = 0, !.fetches = @ + 1]

\* client.go 147-162: the request fails, the status is not 200 or the body
\* does not decode; the pages collected so far are dropped
FetchPageFails ==
  /\ pg.pc = "loop"
  /\ ~PageLimitReached(pg.page)
  /\ faultsLeft > 0
  /\ faultsLeft' = faultsLeft - 1
  /\ pg' = OnPageError(pg)
  /\ UNCHANGED <<dirVars, pc, dir, list, i, result, overAt, lastCalls, nCreate,
                 nUpdate, faulty, prev, runsLeft, cfg, slug, pw, http, cmd>>

\* client.go 113, 179-180: the loop condition fails after maxPages full pages
PageCeiling ==
  /\ pg.pc = "loop"
  /\ PageLimitReached(pg.page)
  /\ pg' = [pg EXCEPT !.pc = "done"]
  /\ UNCHANGED <<dirVars, pc, dir, list, i, result, overAt, lastCalls, nCreate,
                 nUpdate, faulty, prev, runsLeft, faultsLeft, cfg, slug, pw, http, cmd>>

NextPages ==
  \/ FetchPage
  \/ FetchPageFails
  \/ PageCeiling

SpecPages == InitPages /\ [][NextPages]_vars

\* --------------------------------- the GetUsers loop, page by page
\* The collaborator holds pg.n active accounts; the directories play no part
InitUserPages ==
  /\ emps = <<>>
  /\ users = <<>>
  /\ erpUsers = {}
  /\ fieldExists = TRUE
  /\ roleExists = TRUE
  /\ InitRun
  /\ runsLeft = 0
  /\ faultsLeft = 1
  /\ cfg = InitCfg(0)
  /\ slug = SlugOff
  /\ pw = PwOff
  /\ http = HttpOff
  /\ cmd = CmdOff
  /\ pg \in {[PgOff EXCEPT !.pc = "users", !.n = n] : n \in 0..(MaxK * perPage)}

\* api.go 156-185: one pass of the loop body whose request succeeds
FetchUsersPage ==
  /\ pg.pc = "users"
  /\ LET rest == pg.n - pg.page * perPage
         got == IF rest < 0 THEN 0 ELSE Min(perPage, rest)
         fetched == [pg EXCEPT !.all = @ + got, !.fetches = @ + 1, !.last = got]
     IN
     pg' = IF got < perPage THEN [fetched EXCEPT !.pc = "done"]
           ELSE IF pg.page + 1 > maxUserPage
           THEN [fetched EXCEPT !.pc = "done", !.page = @ + 1]
           ELSE [fetched EXCEPT !.page = @ + 1]
  /\ UNCHANGED <<dirVars, pc, dir, list, i, result, overAt, lastCalls, nCreate,
                 nUpdate, faulty, prev, runsLeft, faultsLeft, cfg, slug, pw, http, cmd>>

\* api.go 163-167: GetUsers returns an error and the handler returns
FetchUsersPageFails ==
  /\ pg.pc = "users"
  /\ faultsLeft > 0
  /\ faultsLeft' = faultsLeft - 1
  /\ pg' = [pg EXCEPT !.pc = "error", !.all = 0, !.fetches = @ + 1]
  /\ UNCHANGED <<dirVars, pc, dir, list, i, result, overAt, lastCalls, nCreate,
                 nUpdate, faulty, prev, runsLeft, cfg, slug, pw, http, cmd>>

NextUserPages ==
  \/ FetchUsersPage
  \/ FetchUsersPageFails

SpecUserPages == InitUserPages /\ [][NextUserPages]_vars

\* ---------------------------------------- the endpoints and the command
\* The Mattermost-User-ID header: "" is 0, an id that names no account -1
UserIDs == {0, -1} \cup (1..Len(users))

\* api.go 34-35: the routes of the sync subrouter and the handler of each
SyncRoutes == {"/sync/mm-to-erp", "/sync/erp-to-mm"}

\* api.go 50: p.API.GetUser(userID), not called for an empty header
LookupRequester(userID) ==
  IF userID = 0 THEN {[err |-> TRUE, user |-> 0, fault |-> FALSE]}
  ELSE MM_GetUser(users, userID)

\* model.User.IsSystemAdmin: the roles of the account hold system_admin
IsSystemAdmin(id) == id \in http.admins

\* The middleware without the role check
AdminAuthorizationRequired_AnyUser(userID, g) ==
  IF userID = 0 THEN 401
  ELSE IF g.err THEN 401
  ELSE 0

\* api.go 41-66: the status AdminAuthorizationRequired answers with, 0 when
\* it calls next.ServeHTTP
AdminAuthorizationRequired(userID, g) ==
  IF userID = 0 THEN 401
  ELSE IF g.err THEN 401
  ELSE IF ~IsSystemAdmin(g.user) THEN 403
  ELSE 0

\* No run is in progress: requests and commands are served one at a time
Quiet == pc \in {"idle", "done", "aborted"}

\* api.go 17-38: a POST to one of the sync routes
ServeHTTP ==
  /\ http.left > 0
  /\ Quiet
  /\ \E route \in SyncRoutes, userID \in UserIDs :
       \E g \in LookupRequester(userID) :
         LET status == AdminAuthorizationRequired(userID, g)
             served == [http EXCEPT !.left = @ - 1, !.status = status,
                                    !.user = userID, !.next = "none"]
         IN
         IF status # 0
         THEN /\ http' = served
              /\ faultsLeft' = faultsLeft - B(g.fault)
              /\ UNCHANGED <<dirVars, pc, dir, list, i, result, overAt, lastCalls,
                             nCreate, nUpdate, faulty, prev, runsLeft, pg, cfg,
                             slug, pw, cmd>>
         ELSE /\ http' = [served EXCEPT !.next = route]
              /\ IF route = "/sync/mm-to-erp" THEN EnterSyncUsers
                 ELSE EnterSyncEmployees

\* The nil check that never finds the client missing
ClientMissing_Never(client) == FALSE

\* command.go 118: h.erpNextClient == nil
ClientMissing(client) == client = 0

\* The plural text for every count but zero
EmployeeCountText_NoSingular(employeeCount) ==
  IF employeeCount = 0 THEN <<"No employees found in ERPNext.">>
  ELSE <<"There are ", employeeCount, " employees in ERPNext.">>

\* command.go 136-145: the text for the count; %d stands as the number
EmployeeCountText(employeeCount) ==
  IF employeeCount = 0 THEN <<"No employees found in ERPNext.">>
  ELSE IF employeeCount = 1 THEN <<"There is 1 employee in ERPNext.">>
  ELSE <<"There are ", employeeCount, " employees in ERPNext.">>

\* command.go 116-151: the responses of executeEmployeeCommand
EmployeeCommandResponses(client) ==
  IF ClientMissing(client)
  THEN {[type |-> "ephemeral",
         text |-> <<"ERPNext client is not configured properly. Please check the plugin settings.">>,
         calls |-> <<>>, fault |-> FALSE]}
  ELSE IF client = 0
  THEN \* a method of a nil *Client reads c.URL
       {[type |-> "panic", text |-> <<>>,
         calls |-> <<Call("GetEmployees", "panic")>>, fault |-> FALSE]}
  ELSE { IF r.err
         THEN [type |-> "ephemeral", text |-> <<"Failed to fetch employees: ">>,
               calls |-> <<Call("GetEmployees", "err")>>, fault |-> TRUE]
         ELSE [type |-> "in_channel", text |-> EmployeeCountText(Len(r.data)),
               calls |-> <<CallWith("GetEmployees", "ok", Len(r.data))>>,
               fault |-> FALSE]
         : r \in UNION {GetEmployees(emps, h) : h \in BOOLEAN} }

\* command.go 82-89: Handle is called with the /employee trigger
ExecuteEmployeeCommand ==
  /\ cmd.pc = "in"
  /\ Quiet
  /\ \E r \in EmployeeCommandResponses(cmd.client) :
       /\ cmd' = [cmd EXCEPT !.pc = "out", !.type = r.type, !.text = r.text,
                             !.calls = r.calls]
       /\ faultsLeft' = faultsLeft - B(r.fault)
  /\ UNCHANGED <<dirVars, pc, dir, list, i, result, overAt, lastCalls, nCreate,
                 nUpdate, faulty, prev, runsLeft, pg, cfg, slug, pw, http>>

\* p.erpNextClient as it is after activation: built (1) or nil (0)
CfgAt(client) == [InitCfg(0) EXCEPT !.client = client, !.view = client, !.start = client]

\* One run at most and MaxRequests requests
InitHTTP ==
  /\ DirectoriesUpTo(MaxFrontRecords)
  /\ InitRun
  /\ runsLeft = 1
  /\ faultsLeft = 1
  /\ pg = PgOff
  /\ slug = SlugOff
  /\ pw = PwOff
  /\ cfg = InitCfg(0)
  /\ \E admins \in SUBSET (1..Len(users)) :
       http = [HttpOff EXCEPT !.admins = admins, !.left = MaxRequests]
  /\ cmd = CmdOff

NextHTTP ==
  \/ ServeHTTP
  \/ FetchEmployees
  \/ FetchUsers
  \/ ProcessEmployee
  \/ ProcessUser
  \/ Respond

SpecHTTP == InitHTTP /\ [][NextHTTP]_vars

\* One run at most and one /employee command; the plugin and the command
\* handler each have a client or none
InitCommand ==
  /\ DirectoriesUpTo(MaxFrontRecords)
  /\ InitRun
  /\ runsLeft = 1
  /\ faultsLeft = 1
  /\ pg = PgOff
  /\ slug = SlugOff
  /\ pw = PwOff
  /\ \E c \in {0, 1} : cfg = CfgAt(c)
  /\ http = HttpOff
  /\ \E c \in {0, 1} : cmd = [CmdOff EXCEPT !.pc = "in", !.client = c]

NextCommand ==
  \/ Next
  \/ ExecuteEmployeeCommand

SpecCommand == InitCommand /\ [][NextCommand]_vars

\* ------------------------------------------------------------- properties
SumCounts(r) == r.matched + r.updated + r.created + r.skipped

LineTexts(r) == {r.lines[k].text : k \in 1..Len(r.lines)}

\* The current run directly follows a complete run (not aborted, not timed
\* out, no failed call) of the same direction, and no call of it has failed
SecondRun(d) ==
  /\ dir = d
  /\ pc \in {"loop", "done"}
  /\ prev.dir = d
  /\ prev.complete
  /\ ~faulty

\* C1: a second A->B run right after a complete first one issues no chat
\* account Create and no employee Update, reports created_count = 0 and
\* updated_count = 0, and reports every record it processed as skipped or as
\* Already Mapped; when it is not cut by the deadline every record is counted
\* as matched or skipped.
C1_IdempotentAB ==
  SecondRun("erp2mm") =>
    /\ nCreate = 0
    /\ nUpdate = 0
    /\ result.created = 0
    /\ result.updated = 0
    /\ LineTexts(result) \subseteq
         {"Skipped (No Email)", "Skipped (Inactive)", "Already Mapped", "TIMEOUT"}
    /\ (pc = "done" /\ ~result.timedOut) =>
         result.matched + result.skipped = Len(list)

\* A second A->B run has ended after counting a record as matched that the
\* first run had to link or create
C1_Witness ==
  /\ SecondRun("erp2mm")
  /\ pc = "done"
  /\ ~result.timedOut
  /\ result.matched > 0
  /\ prev.writes > 0
  /\ \E k \in 1..Len(list) : list[k].chat > 0

\* C2: a second B->A run right after a complete first one issues no employee
\* Create and no employee Update (created_count = 0, updated_count = 0) and
\* counts every account it processed as matched or skipped.
C2_IdempotentBA ==
  SecondRun("mm2erp") =>
    /\ nCreate = 0
    /\ nUpdate = 0
    /\ result.created = 0
    /\ result.updated = 0
    /\ (pc = "done" /\ ~result.timedOut) =>
         result.matched + result.skipped = Len(list)

\* C3 (as stated): for every k >= 0, k * pageSize employees take k + 1
\* fetches, the last one returning zero records; for every k >= 1,
\* k * pageSize - 1 employees take k fetches, the last one short.
C3_PaginationEveryK ==
  pg.pc = "done" =>
    /\ \A k \in 0..MaxK :
         pg.n = k * pageSize => pg.fetches = k + 1 /\ pg.last = 0
    /\ \A k \in 1..MaxK :
         pg.n = k * pageSize - 1 => pg.fetches = k /\ pg.last < pageSize

\* C3 (amended): the counts hold below the page ceiling: k * pageSize
\* employees with k < maxPages take k + 1 fetches ending on an empty page,
\* k * pageSize - 1 employees with 1 <= k <= maxPages take k fetches ending
\* on a short page; from maxPages * pageSize employees on, the enumeration
\* stops after maxPages fetches, the last of them a full page.
C3_PaginationBelowCeiling ==
  pg.pc = "done" =>
    /\ \A k \in 0..MaxK :
         (pg.n = k * pageSize /\ k < maxPages) =>
           pg.fetches = k + 1 /\ pg.last = 0 /\ pg.all = pg.n
    /\ \A k \in 1..MaxK :
         (pg.n = k * pageSize - 1 /\ k <= maxPages) =>
           pg.fetches = k /\ pg.last = pageSize - 1 /\ pg.all = pg.n
    /\ pg.n >= maxPages * pageSize =>
         pg.fetches = maxPages /\ pg.last = pageSize /\ pg.all = maxPages * pageSize

\* 400 employees were enumerated with three fetches
C3_Witness ==
  /\ pg.pc = "done"
  /\ pg.n = 2 * pageSize
  /\ pg.fetches = 3
  /\ pg.last = 0

\* ------------------------------------------------------ deadline (C4, C5)
\* C4 (as stated): when the deadline is passed before every enumerated
\* record has been processed, the last record included, the run returns
\* timed_out = true and total_processed below the number of source records.
C4_DeadlineTruncation ==
  (pc = "done" /\ overAt >= 0 /\ Len(list) > 0) =>
    result.timedOut /\ result.total < Len(list)

\* C4 (amended): the run returns timed_out = true exactly when the deadline
\* was passed before processing of the last enumerated record started, and
\* then total_processed is below the number of source records; a deadline
\* first passed while the last record is being processed is never noticed
\* and the run returns timed_out = false.
C4_TruncationBeforeLastRecord ==
  pc = "done" =>
    /\ result.timedOut <=> (overAt >= 0 /\ overAt < Len(list))
    /\ result.timedOut => result.total < Len(list)
    /\ result.total = SumCounts(result)

\* A run cut by the deadline after it had processed at least one record
C4_Witness ==
  /\ pc = "done"
  /\ result.timedOut
  /\ overAt >= 1
  /\ overAt < Len(list)

\* What C5 asks of one step
C5_Step ==
  /\ (pc = "loop" /\ ~result.timedOut /\ i < Len(list) /\ overAt >= 0) =>
       /\ result'.timedOut
       /\ result'.lines =
            Append(result.lines, [text |-> "TIMEOUT", idx |-> Len(result.lines)])
       /\ Len(result.lines) = i
       /\ lastCalls' = <<>>
       /\ SumCounts(result') = SumCounts(result)
       /\ UNCHANGED dirVars
  /\ (pc = "loop" /\ result.timedOut) =>
       /\ pc' = "done"
       /\ result'.timedOut
       /\ result'.lines = result.lines
       /\ lastCalls' = <<>>
       /\ UNCHANGED dirVars

\* C5: in both directions the check precedes every record; when it finds the
\* deadline passed the step makes no remote call, appends the timeout line
\* as the last line of the result with N = the number of records started,
\* sets timed_out, and the only step that can follow is the response, which
\* makes no call and adds no line.
C5_DeadlineCheck == [][C5_Step]_vars

\* The check has just stopped a run that had started at least one record
C5_Witness ==
  /\ pc = "loop"
  /\ result.timedOut
  /\ i >= 1
  /\ result.lines[Len(result.lines)] = [text |-> "TIMEOUT", idx |-> i]
  /\ lastCalls = <<>>

\* ------------------------------------------------- matching and skipping
\* Operations named in a sequence of calls
Ops(calls) == {calls[k][1] : k \in 1..Len(calls)}

\* The record about to be processed, when the deadline check lets it through
AboutToProcess(d) ==
  /\ pc = "loop"
  /\ dir = d
  /\ ~result.timedOut
  /\ i < Len(list)
  /\ overAt < 0

\* The employee is active, has an email, and its cross-reference names an
\* account that exists and is not soft-deleted
HasLiveReference(e) ==
  /\ e.email # ""
  /\ e.status = "Active"
  /\ e.chat \in 1..Len(users)
  /\ users[e.chat].deleteAt = 0

\* C6: for an active employee with an email whose cross-reference names a
\* live account, the step makes no lookup by email, no search, no Create and
\* no Update, and counts the record as matched.
C6_MatchingPrecedence ==
  [][(AboutToProcess("erp2mm") /\ HasLiveReference(list[i + 1])) =>
       /\ Ops(lastCalls') \cap {"GetUserByEmail", "SearchUsers", "GetUserByUsername",
                                "CreateUser", "UpdateEmployee"} = {}
       /\ result'.matched = result.matched + 1]_vars

\* The record falls under a skip rule of its direction
Skippable(d, r) ==
  IF d = "erp2mm" THEN r.email = "" \/ r.status # "Active"
  ELSE r.email = "" \/ r.isBot \/ r.deleteAt # 0

\* C7: an employee with empty email or a Status other than Active (A->B), a
\* chat account with empty email, the bot flag or a soft-delete timestamp
\* (B->A) is counted as skipped with one result line and no remote call is
\* issued for it.
C7_SkipPolicy ==
  [][(\E d \in {"erp2mm", "mm2erp"} :
        AboutToProcess(d) /\ Skippable(d, list[i + 1])) =>
       /\ result'.skipped = result.skipped + 1
       /\ SumCounts(result') = SumCounts(result) + 1
       /\ Len(result'.lines) = Len(result.lines) + 1
       /\ result'.lines[Len(result'.lines)].text \in
            {"Skipped (No Email)", "Skipped (Inactive)", "Skipped (Bot)",
             "Skipped (Deleted)"}
       /\ lastCalls' = <<>>
       /\ UNCHANGED dirVars]_vars

\* A bot account that has an email has just been skipped
C7_Witness ==
  /\ pc = "loop"
  /\ dir = "mm2erp"
  /\ ~result.timedOut
  /\ i >= 1
  /\ list[i].isBot
  /\ list[i].email # ""
  /\ result.skipped >= 1
  /\ result.lines[Len(result.lines)].text = "Skipped (Bot)"
  /\ lastCalls = <<>>

\* C8: the cross-reference c of an employee is replaced by a different id
\* only if chat account c is missing or soft-deleted, or the email of c is
\* not the employee's email.
C8_StickyLinking ==
  [][\A k \in 1..Len(emps) :
       (emps[k].chat # 0 /\ emps'[k].chat # emps[k].chat) =>
         \/ emps[k].chat \notin 1..Len(users)
         \/ users[emps[k].chat].deleteAt # 0
         \/ ~EqualFold(users[emps[k].chat].email, emps[k].email)]_vars

\* ---------------------------------------------------- retries and errors
\* An employee has just been processed: lastCalls are the calls made for it
JustProcessedEmployee ==
  /\ pc = "loop"
  /\ dir = "erp2mm"
  /\ ~result.timedOut
  /\ i >= 1

CallsOf(op) == SelectSeq(lastCalls, LAMBDA c : c[1] = op)

\* What C9 says of the Create calls of one record
SingleCollisionRetry ==
  LET cr == CallsOf("CreateUser") IN
  /\ Len(cr) <= 2
  /\ Len(cr) = 2 =>
       /\ cr[1][2] = "username"
       /\ cr[2][3] = [cr[1][3] EXCEPT !.ts = TRUE]
       /\ ~cr[1][3].ts
  /\ (Len(cr) = 2 /\ cr[2][2] # "ok") =>
       /\ lastCalls[Len(lastCalls)] = cr[2]
       /\ result.lines[Len(result.lines)].text = "User Creation Failed (retry)"
       /\ result.lines[Len(result.lines)].idx = i

\* C9 (as stated): at most two Create calls per employee, the second only
\* after a username error of the first and with a suffixed username, a
\* failing second call ends the record as failed; no other operation is
\* issued twice for the record.
C9_SingleRetry ==
  JustProcessedEmployee =>
    /\ SingleCollisionRetry
    /\ \A op \in Ops(lastCalls) \ {"CreateUser"} : Len(CallsOf(op)) <= 1

\* C9 (amended): as stated, except that the lookup by username of the
\* pre-check loop is issued up to probeRetries times for the record, each
\* time with another candidate, and never again after one of them returned
\* an error.
C9_SingleRetryExceptProbe ==
  JustProcessedEmployee =>
    /\ SingleCollisionRetry
    /\ \A op \in Ops(lastCalls) \ {"CreateUser", "GetUserByUsername"} :
         Len(CallsOf(op)) <= 1
    /\ LET pr == CallsOf("GetUserByUsername") IN
       /\ Len(pr) <= probeRetries
       /\ \A j, k \in 1..Len(pr) : j < k => pr[j][3] # pr[k][3] /\ pr[j][2] = "ok"

\* Both Create calls of a record failed after the pre-check had to look up
\* more than one candidate
C9_Witness ==
  /\ JustProcessedEmployee
  /\ Len(CallsOf("CreateUser")) = 2
  /\ Len(CallsOf("GetUserByUsername")) >= 2
  /\ result.lines[Len(result.lines)].text = "User Creation Failed (retry)"

\* The operations of the chat directory
ChatOps == {"GetUsers", "GetUser", "GetUserByEmail", "SearchUsers",
            "GetUserByUsername", "CreateUser", "SendMail"}

\* C10: no error returned by an operation of the chat directory, the listing
\* of accounts included, ends the run without a SyncResult.
C10_ChatErrorsNotFatal ==
  pc = "aborted" =>
    \A k \in 1..Len(lastCalls) :
      lastCalls[k][2] = "err" => lastCalls[k][1] \notin ChatOps

\* --------------------------------------------------- aborts and bootstrap
\* The calls of the schema bootstrap
BootOps == {"CheckCustomFieldExists", "CreateCustomField",
            "CheckRoleProfileExists", "CreateRoleProfile"}

\* Some call of the sequence is a bootstrap call that returned an error
BootFailed(calls) ==
  \E k \in 1..Len(calls) : calls[k][1] \in BootOps /\ calls[k][2] # "ok"

\* C11: a run ends without a SyncResult only after an error of the schema
\* bootstrap; no other error, one raised by the enumeration of the source
\* directory included, aborts it.
C11_OnlyBootstrapAborts == pc = "aborted" => BootFailed(lastCalls)

\* C12: when a check or a create of the bootstrap returns an error the
\* handler returns at once: the failing call is its last call, no page of
\* the source directory is fetched, no record is processed and no Create or
\* Update is issued on either directory.
C12_BootstrapFatal ==
  [][BootFailed(lastCalls') =>
       /\ pc' = "aborted"
       /\ lastCalls'[Len(lastCalls')][2] # "ok"
       /\ \A k \in 1..(Len(lastCalls') - 1) : lastCalls'[k][2] = "ok"
       /\ Ops(lastCalls') \subseteq BootOps
       /\ list' = <<>>
       /\ i' = 0
       /\ nCreate' = 0
       /\ nUpdate' = 0
       /\ result' = EmptyResult
       /\ UNCHANGED <<emps, users, erpUsers>>]_vars

\* A B->A run was aborted by the create request of the role profile
C12_Witness ==
  /\ pc = "aborted"
  /\ dir = "mm2erp"
  /\ Len(lastCalls) = 4
  /\ lastCalls[4] = <<"CreateRoleProfile", "err">>
  /\ list = <<>>

\* C13: a bootstrap that finds the field or the role profile issues no
\* create request for it, and a create request answered "already exists"
\* does not abort the run.
C13_BootstrapIdempotent ==
  [][/\ (fieldExists /\ dir' # "none" /\ runsLeft' < runsLeft) =>
          "CreateCustomField" \notin Ops(lastCalls')
     /\ (roleExists /\ dir' # "none" /\ runsLeft' < runsLeft) =>
          "CreateRoleProfile" \notin Ops(lastCalls')
     /\ (\E k \in 1..Len(lastCalls') :
           lastCalls'[k][1] \in BootOps /\ lastCalls'[k][2] = "exists") =>
          pc' # "aborted"]_vars

\* ------------------------------------------------------------ frame effects
\* The employees whose cross-reference a step has changed
Relinked == {k \in 1..Len(emps) : emps'[k].chat # emps[k].chat}

\* C14: an update changes custom_chat_id of one employee and nothing else:
\* the other fields of that employee and all fields of the other employees
\* are as before the step.
C14_PartialUpdate ==
  [][/\ Len(emps') >= Len(emps)
     /\ \A k \in 1..Len(emps) : emps'[k] = [emps[k] EXCEPT !.chat = emps'[k].chat]
     /\ Cardinality(Relinked) <= 1
     /\ Relinked # {} =>
          \E j \in 1..Len(lastCalls') : lastCalls'[j] = <<"UpdateEmployee", "ok">>]_vars

\* An A->B step has just linked an employee that has an email
C14_Witness ==
  /\ JustProcessedEmployee
  /\ \E j \in 1..Len(lastCalls) : lastCalls[j] = <<"UpdateEmployee", "ok">>
  /\ emps[list[i].name].chat # list[i].chat
  /\ emps[list[i].name].email = list[i].email
  /\ list[i].email # ""

\* C15: every call a run makes through the ERP client goes through the
\* client that was current when the run started, whatever
\* OnConfigurationChange does meanwhile.
C15_OneConfigurationPerRun ==
  pc \in {"fetch", "loop", "done", "panic", "aborted"} => cfg.used \subseteq {cfg.start}

\* C16 (as stated): an A->B run leaves the chat directory as it is.
C16_ChatReadOnlyInAB ==
  [][(dir = "erp2mm" /\ dir' = "erp2mm") => users' = users]_vars

\* C16 (amended): no step changes, deletes or disables an existing chat
\* account; a B->A run writes nothing to the chat directory; the only write
\* is the Create of an A->B step, which adds one live account with the email
\* of the employee being processed.
C16_ChatWrites ==
  [][/\ Len(users') >= Len(users)
     /\ \A k \in 1..Len(users) : users'[k] = users[k]
     /\ dir' = "mm2erp" => users' = users
     /\ users' # users =>
          /\ dir = "erp2mm"
          /\ pc = "loop"
          /\ Len(users') = Len(users) + 1
          /\ \E j \in 1..Len(lastCalls') :
               lastCalls'[j][1] = "CreateUser" /\ lastCalls'[j][2] = "ok"
          /\ users'[Len(users')].email = list[i + 1].email
          /\ users'[Len(users')].id = Len(users')
          /\ users'[Len(users')].deleteAt = 0
          /\ ~users'[Len(users')].isBot]_vars

\* An A->B step has just created an account next to an existing one
C16_Witness ==
  /\ JustProcessedEmployee
  /\ \E j \in 1..Len(lastCalls) : lastCalls[j][1] = "CreateUser" /\ lastCalls[j][2] = "ok"
  /\ Len(users) >= 2
  /\ users[Len(users)].email = list[i].email

\* C17: no step removes an employee record or a chat account, changes the
\* id of one, or sets the soft-delete timestamp of an account: the ids of
\* each directory after a step include those before it.
C17_NeverDestroys ==
  [][/\ Len(emps') >= Len(emps)
     /\ \A k \in 1..Len(emps) : emps'[k].name = emps[k].name
     /\ Len(users') >= Len(users)
     /\ \A k \in 1..Len(users) :
          users'[k].id = users[k].id /\ users'[k].deleteAt = users[k].deleteAt]_vars

\* A B->A step has just created an employee next to existing ones
C17_Witness ==
  /\ pc = "loop"
  /\ dir = "mm2erp"
  /\ i >= 1
  /\ \E j \in 1..Len(lastCalls) :
       lastCalls[j][1] = "CreateEmployee" /\ lastCalls[j][2] = "ok"
  /\ Len(emps) >= 3
  /\ \A k \in 1..Len(emps) : emps[k].name = k

\* The step belongs to the run in progress
SameRun == dir' = dir /\ runsLeft' = runsLeft

Counters(r) == <<r.matched, r.updated, r.created, r.skipped, r.erpCreated,
                 r.erpAlready, r.total>>

\* C18: within a run no counter decreases and the result lines only grow at
\* the end; the response is written once, by the step that follows the end
\* of the record loop, and nothing of the run follows it; an aborted run has
\* an empty SyncResult.
C18_AppendOnly ==
  [][/\ SameRun =>
          /\ \A k \in 1..7 : Counters(result')[k] >= Counters(result)[k]
          /\ Len(result'.lines) >= Len(result.lines)
          /\ SubSeq(result'.lines, 1, Len(result.lines)) = result.lines
          /\ result.timedOut => result'.timedOut
     /\ (pc' = "done" /\ pc # "done") =>
          /\ pc = "loop"
          /\ i >= Len(list) \/ result.timedOut
          /\ result'.lines = result.lines
     /\ pc = "done" => ~SameRun
     /\ pc' = "aborted" => result' = EmptyResult]_vars

\* A run has returned a result with at least two lines
C18_Witness ==
  /\ pc = "done"
  /\ Len(result.lines) >= 2
  /\ result.total >= 2

\* ------------------------------------------------------------- convergence
\* An A->B run has ended, not timed out, with every remote call succeeding
CompleteAB ==
  /\ pc = "done"
  /\ dir = "erp2mm"
  /\ ~faulty
  /\ ~result.timedOut

\* The employee's cross-reference names a live account
LinkedLive(e) ==
  /\ e.chat \in 1..Len(users)
  /\ users[e.chat].deleteAt = 0

\* C19 (as stated): after a complete A->B run every Active employee with an
\* email references an account that exists, is not soft-deleted and has the
\* employee's email (compared without regard to letter case).
C19_Convergence ==
  CompleteAB =>
    \A k \in 1..Len(emps) :
      (emps[k].status = "Active" /\ emps[k].email # "") =>
        /\ LinkedLive(emps[k])
        /\ EqualFold(users[emps[k].chat].email, emps[k].email)

\* C19 (amended): after a complete A->B run every Active employee with an
\* email references an account that exists and is not soft-deleted; the
\* account has the employee's email, letter case apart, when the run wrote
\* the reference, while a reference that was live when the employee was
\* enumerated is kept whatever the email of its account.
C19_ConvergenceLive ==
  CompleteAB =>
    \A k \in 1..Len(emps) :
      (emps[k].status = "Active" /\ emps[k].email # "") =>
        /\ LinkedLive(emps[k])
        /\ \/ EqualFold(users[emps[k].chat].email, emps[k].email)
           \/ \E j \in 1..Len(list) :
                list[j].name = emps[k].name /\ list[j].chat = emps[k].chat
        /\ \E j \in 1..Len(list) : list[j].name = emps[k].name

\* A complete A->B run has linked or created for an employee, and another
\* employee kept a reference it had
C19_Witness ==
  /\ CompleteAB
  /\ nUpdate > 0
  /\ \E k \in 1..Len(emps) :
       /\ emps[k].status = "Active"
       /\ emps[k].email # ""
       /\ \E j \in 1..Len(list) :
            list[j].name = k /\ list[j].chat # emps[k].chat

\* ------------------------------------------------------------- usernames
\* C20: for every pair of names GenerateUsername returns 3 to 22 characters,
\* each of them a lower-case letter, a digit or the underscore.
C20_SlugifyTotal ==
  slug.pc = "out" =>
    /\ Len(slug.out) >= 3
    /\ Len(slug.out) <= 22
    /\ \A k \in 1..Len(slug.out) : slug.out[k] \in Lowers \cup Digits \cup {"_"}

\* Two empty names gave user_ and six random characters
C20_Witness ==
  /\ slug.pc = "out"
  /\ slug.first = <<>>
  /\ slug.last = <<>>
  /\ Len(slug.out) = 11
  /\ SubSeq(slug.out, 1, 5) = <<"u", "s", "e", "r", "_">>

HasOneOf(str, charset) == \E k \in 1..Len(str) : str[k] \in charset

\* C21: for every requested length n, the password GenerateRandomPassword
\* returns has length max(n, 8) and holds at least one lowercase letter, one
\* uppercase letter, one digit and one symbol.
C21_PasswordPolicy ==
  pw.pc = "out" =>
    /\ Len(pw.out) = (IF pw.n > 8 THEN pw.n ELSE 8)
    /\ HasOneOf(pw.out, charsetLower)
    /\ HasOneOf(pw.out, charsetUpper)
    /\ HasOneOf(pw.out, charsetNumber)
    /\ HasOneOf(pw.out, charsetSpecial)

\* A password of more than eight characters was returned whose first four
\* characters are not the four that were put there first
C21_Witness ==
  /\ pw.pc = "out"
  /\ pw.n > 8
  /\ Len(pw.out) = pw.n
  /\ SubSeq(pw.out, 1, 4) = <<"!", "!", "0", "0">>

\* A request was served by this step
Served == http'.left < http.left

\* The handler was not invoked by this step: no run, no remote call of a
\* handler, no write
NotInvoked ==
  /\ http'.next = "none"
  /\ UNCHANGED <<dirVars, pc, dir, list, i, result, lastCalls, nCreate, nUpdate,
                 runsLeft>>

NotConfiguredText ==
  <<"ERPNext client is not configured properly. Please check the plugin settings.">>

\* The /employee command was handled by this step
Commanded == cmd.pc = "in" /\ cmd'.pc = "out"

\* C23: with no ERP client configured the /employee command answers with an
\* ephemeral "not configured properly" message, a sync endpoint answers with
\* an error, and no remote call to either directory is made.
C23_NoClientNoCalls ==
  [][ /\ (Commanded /\ cmd.client = 0) =>
           /\ cmd'.type = "ephemeral"
           /\ cmd'.text = NotConfiguredText
           /\ cmd'.calls = <<>>
           /\ UNCHANGED <<dirVars, lastCalls, faultsLeft>>
      /\ (runsLeft' < runsLeft /\ cfg.client = 0) =>
           /\ pc' = "aborted"
           /\ UNCHANGED <<dirVars, faultsLeft>>
      /\ cfg.client = 0 => pc' \in {"idle", "aborted"} /\ lastCalls' = <<>>
    ]_vars

\* Neither the plugin nor the command handler has a client; the command was
\* answered and a sync endpoint was called, with employees in the directory
C23_Witness ==
  /\ cmd.pc = "out"
  /\ cmd.client = 0
  /\ cmd.type = "ephemeral"
  /\ cfg.client = 0
  /\ pc = "aborted"
  /\ runsLeft = 0
  /\ Len(emps) > 0

\* The command's GetEmployees call returned a list
CountedBy(c) == c.calls # <<>> /\ c.calls[1][1] = "GetEmployees" /\ c.calls[1][2] = "ok"

\* C24: the /employee command reports the number n of employees returned by
\* GetEmployees in an in-channel response: "No employees found in ERPNext."
\* for n = 0, "There is 1 employee in ERPNext." for n = 1, "There are n
\* employees in ERPNext." for n >= 2.
C24_EmployeeCount ==
  [][ (Commanded /\ CountedBy(cmd')) =>
        LET n == cmd'.calls[1][3] IN
        /\ n \in {Len(GetEmployeesLoop(RemoteEmployees(emps, h), 0, 0, <<>>)) : h \in BOOLEAN}
        /\ cmd'.type = "in_channel"
        /\ n = 0 => cmd'.text = <<"No employees found in ERPNext.">>
        /\ n = 1 => cmd'.text = <<"There is 1 employee in ERPNext.">>
        /\ n >= 2 => cmd'.text = <<"There are ", n, " employees in ERPNext.">>
    ]_vars

\* The command counted one employee after a run had created it
C24_Witness ==
  /\ cmd.pc = "out"
  /\ CountedBy(cmd)
  /\ cmd.calls[1][3] = 1
  /\ cmd.type = "in_channel"
  /\ pc = "done"
  /\ dir = "mm2erp"
  /\ nCreate = 1

\* C25: GetEmployees performs at most 20 page fetches of 200 records; when
\* the remote returns a full page every time it stops after the 20th fetch
\* and returns the records fetched so far, 4000 at most, with no error.
C25_CeilingFailsClosed ==
  pg.pc \in {"loop", "done", "error"} =>
    /\ pg.fetches <= 20
    /\ pg.all <= 4000
    /\ pg.all <= pg.fetches * 200
    /\ (pg.fetches = 20 /\ pg.pc = "loop") => PageLimitReached(pg.page)
    /\ (pg.fetches = 20 /\ pg.last = 200 /\ pg.pc # "error") => pg.all = 4000
    /\ pg.pc = "error" => pg.all = 0 /\ faultsLeft = 0
    /\ (pg.pc = "done" /\ pg.n >= 4000) => pg.fetches = 20 /\ pg.all = 4000

\* 4200 employees are held by the remote; the enumeration ended without an
\* error after twenty full pages
C25_Witness ==
  /\ pg.pc = "done"
  /\ pg.n = 4200
  /\ pg.fetches = 20
  /\ pg.last = 200
  /\ pg.all = 4000

\* C26: the chat-account enumeration of SyncUsers fetches at most 15 pages of
\* 200 accounts, so it never enumerates more than 3000 accounts in one run.
C26_UserPageCeiling ==
  pg.pc \in {"users", "done", "error"} =>
    /\ pg.fetches <= 15
    /\ pg.all <= 3000

NewUserCreatedTexts ==
  {"New User Created (Email sent)", "New User Created (Email delivery attempted)"}

LastLine == result.lines[Len(result.lines)]

\* C27: credential delivery is attempted only after the chat account was
\* created and the cross-reference write succeeded, in that order, and its
\* result does not change the outcome: sent or not, the record is counted
\* once in created_count and gets one "New User Created" line.
C27_DeliveryBestEffort ==
  /\ JustProcessedEmployee =>
       /\ \A k \in 1..Len(lastCalls) :
            lastCalls[k][1] = "SendMail" =>
              /\ k = Len(lastCalls)
              /\ k >= 3
              /\ lastCalls[k - 1] = <<"UpdateEmployee", "ok">>
              /\ lastCalls[k - 2][1] = "CreateUser"
              /\ lastCalls[k - 2][2] = "ok"
              /\ LastLine.idx = i
              /\ LastLine.text = (IF lastCalls[k][2] = "ok"
                                  THEN "New User Created (Email sent)"
                                  ELSE "New User Created (Email delivery attempted)")
       /\ LastLine.text \in NewUserCreatedTexts => "SendMail" \in Ops(lastCalls)
  /\ (dir = "erp2mm" /\ pc \in {"loop", "done"}) =>
       /\ result.created =
            Cardinality({k \in 1..Len(result.lines) :
                           result.lines[k].text \in NewUserCreatedTexts})
       /\ \A k, j \in 1..Len(result.lines) :
            (/\ result.lines[k].text \in NewUserCreatedTexts
             /\ result.lines[j].text \in NewUserCreatedTexts
             /\ result.lines[k].idx = result.lines[j].idx) => k = j

\* The mail to a new account was not delivered; the record is counted as
\* created and the employee names the account
C27_Witness ==
  /\ JustProcessedEmployee
  /\ lastCalls[Len(lastCalls)] = <<"SendMail", "err">>
  /\ result.created = 1
  /\ LastLine.text = "New User Created (Email delivery attempted)"
  /\ emps[list[i].name].chat = Len(users)

\* The account the employee of the last iteration names now
LinkedTo == emps[list[i].name].chat

\* C28: the broader search is tried at most once per record and only when
\* the exact lookup by email returned an error or no account; the account an
\* employee is linked to after a search has the employee's email ignoring
\* case and is not soft-deleted; and a cross-reference is written to an
\* existing account only if that account is not soft-deleted.
C28_Rediscovery ==
  JustProcessedEmployee =>
    /\ Len(CallsOf("SearchUsers")) <= 1
    /\ \A k \in 1..Len(lastCalls) :
         lastCalls[k][1] = "SearchUsers" =>
           k >= 2 /\ lastCalls[k - 1] = <<"GetUserByEmail", "err">>
    /\ LastLine.text = "Mapped to existing user" =>
         /\ LinkedTo \in 1..Len(users)
         /\ users[LinkedTo].deleteAt = 0
         /\ EqualFold(users[LinkedTo].email, list[i].email)
         /\ "SearchUsers" \notin Ops(lastCalls) => users[LinkedTo].email = list[i].email
    /\ (<<"UpdateEmployee", "ok">> \in {lastCalls[k] : k \in 1..Len(lastCalls)}
          /\ "CreateUser" \notin Ops(lastCalls)) =>
         /\ LastLine.text = "Mapped to existing user"
         /\ LinkedTo \in 1..Len(users)
         /\ users[LinkedTo].deleteAt = 0

\* The exact lookup found nothing, the search returned an account whose
\* email differs from the employee's in case only, and the employee was
\* linked to it
C28_Witness ==
  /\ JustProcessedEmployee
  /\ <<"SearchUsers", "ok">> \in {lastCalls[k] : k \in 1..Len(lastCalls)}
  /\ LastLine.text = "Mapped to existing user"
  /\ LinkedTo \in 1..Len(users)
  /\ users[LinkedTo].email # list[i].email
  /\ \E k \in 1..Len(users) : users[k].deleteAt # 0

\* The last iteration found the employee's reference stale: it looked the
\* account up and did not report the employee as already mapped
StaleReferenceFound ==
  /\ JustProcessedEmployee
  /\ lastCalls # <<>>
  /\ lastCalls[1][1] = "GetUser"
  /\ LastLine.text # "Already Mapped"

\* No call after the lookup of the reference failed: a lookup by email or
\* by username may find nothing
RestSucceeded ==
  \A k \in 2..Len(lastCalls) :
    \/ lastCalls[k][2] = "ok"
    \/ lastCalls[k][1] = "GetUserByEmail" /\ lastCalls[k][2] = "err"
    \/ lastCalls[k][1] = "GetUserByUsername" /\ lastCalls[k][2] = "err"

\* C29: when an employee's cross-reference names a chat account that is
\* missing or soft-deleted, or the lookup returns an error, the record is not
\* failed or skipped for that reason: the iteration goes on to the lookup by
\* email and, when the calls that follow succeed, the employee ends linked to
\* a live account or to a newly created one.
C29_StaleReferenceNotFatal ==
  StaleReferenceFound =>
    /\ list[i].chat # 0
    /\ Len(lastCalls) >= 2
    /\ lastCalls[2][1] = "GetUserByEmail"
    /\ LastLine.idx = i
    /\ LastLine.text \notin {"Skipped (No Email)", "Skipped (Inactive)"}
    /\ RestSucceeded =>
         /\ LastLine.text \in {"Mapped to existing user", "New User Created (Email sent)"}
         /\ LinkedTo \in 1..Len(users)
         /\ users[LinkedTo].deleteAt = 0
         /\ EqualFold(users[LinkedTo].email, list[i].email)
         /\ result.updated + result.created >= 1

\* The employee named a soft-deleted account; a new account was created
\* and the employee names it now
C29_Witness ==
  /\ StaleReferenceFound
  /\ lastCalls[1] = <<"GetUser", "ok">>
  /\ RestSucceeded
  /\ list[i].chat \in 1..Len(users)
  /\ users[list[i].chat].deleteAt # 0
  /\ LastLine.text = "New User Created (Email sent)"
  /\ LinkedTo = Len(users)

\* The last step processed a chat account of a run towards the HR system
JustProcessedUser ==
  /\ pc = "loop"
  /\ dir = "mm2erp"
  /\ ~result.timedOut
  /\ i >= 1

\* The employees as they were before the last iteration: a successful
\* creation appended one record, nothing else adds or removes one
EmployeesBefore ==
  IF \E k \in 1..Len(lastCalls) :
       lastCalls[k][1] = "CreateEmployee" /\ lastCalls[k][2] = "ok"
  THEN SubSeq(emps, 1, Len(emps) - 1)
  ELSE emps

\* The account of the last iteration passed the skip checks and the lookup
\* by email answered that no employee has its email
NoEmployeeFound ==
  /\ JustProcessedUser
  /\ SkipReasonUser(list[i]) = ""
  /\ lastCalls # <<>>
  /\ lastCalls[1] = <<"GetEmployeeByEmail", "ok">>
  /\ \A k \in 1..Len(EmployeesBefore) : EmployeesBefore[k].email # list[i].email

\* C30: for a chat account that passes the skip checks and for which the
\* lookup by email finds no employee, exactly one CreateEmployee request is
\* sent; it carries the account's email and name, status Active, gender
\* Male, birth and joining date 2000-01-01 and the cross-reference set to the
\* account's id; no UpdateEmployee is sent for that record; and a created
\* employee names the account.
C30_CreationRequest ==
  /\ JustProcessedUser => Len(CallsOf("CreateEmployee")) <= 1
  /\ NoEmployeeFound =>
       /\ Len(CallsOf("CreateEmployee")) = 1
       /\ Len(lastCalls) >= 2
       /\ lastCalls[2][1] = "CreateEmployee"
       /\ lastCalls[2][3] =
            [doctype |-> "Employee", company_email |-> list[i].email,
             first_name |-> list[i].first, gender |-> "Male",
             date_of_birth |-> "2000-01-01", date_of_joining |-> "2000-01-01",
             status |-> "Active", custom_chat_id |-> list[i].id]
       /\ "UpdateEmployee" \notin Ops(lastCalls)
       /\ lastCalls[2][2] = "ok" =>
            /\ emps[Len(emps)].email = list[i].email
            /\ emps[Len(emps)].chat = list[i].id
            /\ emps[Len(emps)].status = "Active"
            /\ result.created >= 1

\* An employee was created for an account that had none, beside employees
\* and accounts that were already there
C30_Witness ==
  /\ NoEmployeeFound
  /\ lastCalls[2][1] = "CreateEmployee"
  /\ lastCalls[2][2] = "ok"
  /\ lastCalls[2][3].custom_chat_id = list[i].id
  /\ list[i].id >= 2
  /\ Len(emps) >= 2
  /\ emps[Len(emps)].chat = list[i].id

\* C31: GetEmployees fails as a whole and without retry: when a page request
\* fails it returns an error and no records, the pages already fetched being
\* dropped, and it sends no further request; each page is requested exactly
\* once, at the offset that follows the pages before it.
C31_FailsWhole ==
  pg.pc \in {"loop", "done", "error"} =>
    /\ pg.startIdx = pg.page * pageSize
    /\ pg.pc = "loop" => pg.fetches = pg.page
    /\ pg.pc = "error" =>
         /\ pg.all = 0
         /\ pg.fetches = pg.page + 1
         /\ ~ENABLED FetchPage
         /\ ~ENABLED FetchPageFails
    /\ pg.pc = "done" =>
         \/ pg.fetches = pg.page + 1
         \/ pg.fetches = pg.page /\ PageLimitReached(pg.page)

\* Three pages had been fetched when the fourth request failed: nothing is
\* returned
C31_Witness ==
  /\ pg.pc = "error"
  /\ pg.page = 3
  /\ pg.fetches = 4
  /\ pg.last = pageSize
  /\ pg.all = 0

\* An earlier record of the run has the email of the record of the last
\* iteration, and a chat account was created for it; no soft-deleted account
\* has that email
CreatedForSameEmail ==
  /\ JustProcessedEmployee
  /\ SkipReasonEmployee(list[i]) = ""
  /\ \E k \in 1..(Len(result.lines) - 1) :
       /\ result.lines[k].idx < i
       /\ result.lines[k].idx >= 1
       /\ list[result.lines[k].idx].email = list[i].email
       /\ result.lines[k].text \in NewUserCreatedTexts
  /\ \A k \in 1..Len(users) :
       EqualFold(users[k].email, list[i].email) => users[k].deleteAt = 0

\* C32: within one run from the HR system to the chat directory at most one
\* chat account is created per distinct email: when an account was created
\* for an earlier employee with the same email, the later employee is
\* linked to that account and no second Create is sent.
C32_OneCreatePerEmail ==
  CreatedForSameEmail =>
    /\ "CreateUser" \notin Ops(lastCalls)
    /\ LastLine.text \in {"Already Mapped", "Mapped to existing user", "Update Failed"}

\* C33: created_count of a run from the HR system to the chat directory
\* equals the number of chat accounts the run created: every iteration adds
\* to created_count exactly the number of accounts it added to the chat
\* directory, also when the cross-reference write after a Create fails.
C33_CreatedCountExact ==
  [][(SameRun /\ dir = "erp2mm" /\ pc = "loop" /\ pc' = "loop") =>
       result'.created - result.created = Len(users') - Len(users)]_vars

\* C34: complete audit trail: in both directions, at every point of a run
\* the result list holds exactly one line for each record whose processing
\* has finished, in enumeration order, followed by at most one timeout line.
C34_AuditTrail ==
  /\ pc \in {"loop", "done"} =>
       /\ Len(result.lines) = i + B(result.timedOut)
       /\ \A k \in 1..i :
            result.lines[k].idx = k /\ result.lines[k].text # "TIMEOUT"
       /\ result.timedOut =>
            /\ i < Len(list)
            /\ result.lines[i + 1] = TimeoutLine(i)
  /\ pc \in {"fetch", "aborted"} => result.lines = <<>> /\ ~result.timedOut

\* A chat account was processed, then the deadline check stopped the run
\* before the second
C34_Witness ==
  /\ pc = "done"
  /\ dir = "mm2erp"
  /\ result.timedOut
  /\ i = 1
  /\ Len(list) = 2
  /\ Len(result.lines) = 2
  /\ result.lines[1].text = "Employee & ERPNext User Created"

\* The lines of a record that was not counted: its employee or account step
\* failed
FailTexts ==
  {"Error", "Update Failed", "Creation Failed", "User Creation Failed",
   "User Creation Failed (retry)", "User Created but Update Failed"}

\* The lines of a chat account that was counted and whose login-user step
\* on the HR side failed afterwards
ErpStepFailTexts ==
  {"Employee Created, User Check Failed", "Employee Updated, User Check Failed",
   "Employee Created, ERPNext User Creation Failed",
   "Employee Updated, ERPNext User Creation Failed"}

\* One step of a run changes the four counters by at most one increment of
\* one of them, made by an iteration that started a record
CounterStep ==
  SameRun =>
    /\ \A k \in 1..4 : Counters(result')[k] - Counters(result)[k] \in {0, 1}
    /\ SumCounts(result') - SumCounts(result) \in {0, 1}
    /\ SumCounts(result') = SumCounts(result) + 1 => i' = i + 1

\* total_processed is the sum of the four counters, never more than the
\* records started, and all records of a run that was not timed out exactly
\* when no line is one of failed
TotalsAgree(failed) ==
  /\ pc = "done" => result.total = SumCounts(result)
  /\ pc \in {"loop", "done"} => SumCounts(result) <= i /\ result.total <= i
  /\ (pc = "done" /\ ~result.timedOut) =>
       (result.total = Len(list) <=> LineTexts(result) \cap failed = {})

\* C35 as stated: each record increments at most one of the four counters,
\* total_processed is their sum and never exceeds the records started, and in
\* a run that is not timed out it equals the number of source records exactly
\* when no record reports a failure.
C35_CounterConsistency ==
  TotalsAgree(FailTexts \cup ErpStepFailTexts)

\* C35, amended: each record increments at most one of the four counters,
\* total_processed is their sum and never exceeds the records started, and in
\* a run that is not timed out it equals the number of source records exactly
\* when no record failed in its employee or account step; a chat account
\* whose login-user step failed stays counted.
C35_CountersExceptErpStep ==
  [][CounterStep]_vars /\ []TotalsAgree(FailTexts)

\* A run ended, not timed out, with one record counted and one failed
C35_Witness ==
  /\ pc = "done"
  /\ ~result.timedOut
  /\ Len(list) = 2
  /\ result.total = 1
  /\ LineTexts(result) \cap FailTexts # {}

\* The lines that report a chat account as updated
UpdatedTexts ==
  {"Employee Updated, ERPNext User Created", "Employee Updated, User Check Failed",
   "Employee Updated, ERPNext User Creation Failed"}

\* The lines that report a chat account as already mapped
MatchedTexts == {"Already Mapped, ERPNext User Exists"}

\* Number of lines of the result whose text is in T
LinesIn(T) == Cardinality({k \in 1..Len(result.lines) : result.lines[k].text \in T})

\* C36: in a run from the chat directory to the HR system the result lines
\* agree with the counters: the number of lines that report an account as
\* updated equals updated_count and the number of lines that report it as
\* already mapped equals matched_count.
C36_LinesAgree ==
  (dir = "mm2erp" /\ pc \in {"loop", "done"}) =>
    /\ LinesIn(UpdatedTexts) = result.updated
    /\ LinesIn(MatchedTexts) = result.matched

\* The characters a username is allowed to hold
UsernameChars ==
  Lowers \cup Digits \cup {"_"} \cup {"0", "1", "2", "3", "4", "5", "6", "7", "8", "9"}

\* C37: every username passed to chat-account Create, in the first attempt
\* and in the collision retry, has 3 to 22 characters from a-z, 0-9 and
\* underscore, and the username of the first attempt is the one the last
\* lookup of the pre-check reported as not existing.
C37_CreateUsernames ==
  slug.pc = "created" =>
    /\ \A k \in 1..Len(slug.passed) :
         /\ Len(slug.passed[k]) >= usernameMin
         /\ Len(slug.passed[k]) <= usernameMax
         /\ \A c \in 1..Len(slug.passed[k]) : slug.passed[k][c] \in UsernameChars
    /\ slug.tried # <<>>
    /\ slug.tried[Len(slug.tried)] = <<slug.passed[1], "err">>

\* C38: a run never dereferences a missing ERP client: once a run has passed
\* its check that the client is configured, every later call through the
\* client is made on a client that is there, whatever OnConfigurationChange
\* does meanwhile.
C38_NoNilDereference ==
  /\ pc # "panic"
  /\ pc \in {"fetch", "loop", "done"} => 0 \notin cfg.used

\* The step is an iteration of a run from the chat directory to the HR system
\* that processed the account list[i + 1]
UserStep ==
  /\ SameRun
  /\ dir = "mm2erp"
  /\ pc = "loop"
  /\ pc' = "loop"
  /\ i' = i + 1

\* The employee step of the account just processed succeeded: an employee
\* with the account's email names the account
EmployeeStepDone(u) ==
  /\ \E k \in 1..Len(emps') : emps'[k].email = u.email /\ emps'[k].chat = u.id
  /\ \E k \in 1..(Len(lastCalls') - 1) :
       /\ lastCalls'[k + 1][1] = "ERP.GetUserByEmail"
       /\ lastCalls'[k][1] \in {"GetEmployeeByEmail", "UpdateEmployee", "CreateEmployee"}
       /\ lastCalls'[k][2] = "ok"
  /\ SumCounts(result') = SumCounts(result) + 1
  /\ result'.matched + result'.updated + result'.created
       = result.matched + result.updated + result.created + 1

\* What C39 says of one iteration
ErpUserProvisioning ==
  UserStep =>
    LET u == list[i + 1]
        ops == [k \in 1..Len(lastCalls') |-> lastCalls'[k][1]]
        create == {k \in 1..Len(ops) : ops[k] = "ERP.CreateUser"}
        lookup == {k \in 1..Len(ops) : ops[k] = "ERP.GetUserByEmail"}
    IN /\ Cardinality(create) <= 1
       /\ Cardinality(lookup) <= 1
       /\ lookup # {} => EmployeeStepDone(u)
       /\ \A k \in create :
            /\ k = Len(ops)
            /\ k >= 2
            /\ lastCalls'[k - 1] = <<"ERP.GetUserByEmail", "ok">>
            /\ u.email \notin erpUsers
            /\ lastCalls'[k][2] = "ok" =>
                 /\ erpUsers' = erpUsers \cup {u.email}
                 /\ result'.erpCreated = result.erpCreated + 1
            /\ lastCalls'[k][2] = "err" =>
                 /\ erpUsers' = erpUsers
                 /\ result'.erpCreated = result.erpCreated
       /\ (lookup # {} /\ create = {}) => erpUsers' = erpUsers
       /\ (<<"ERP.GetUserByEmail", "ok">> \in {lastCalls'[k] : k \in lookup}
             /\ u.email \notin erpUsers) => create # {}

\* C39: for a chat account the login user on the HR side is created at most
\* once per run, only after the employee step of the account succeeded and
\* only when the lookup of a login user by the account's email returned no
\* user and no error; a failure of this step leaves the employee step done
\* and counted once.
C39_ErpUserProvisioning == [][ErpUserProvisioning]_vars

\* The employee of an account was created and counted, then the creation of
\* its login user failed
C39_Witness ==
  /\ JustProcessedUser
  /\ Len(lastCalls) = 4
  /\ lastCalls[2][1] = "CreateEmployee"
  /\ lastCalls[2][2] = "ok"
  /\ lastCalls[3] = <<"ERP.GetUserByEmail", "ok">>
  /\ lastCalls[4] = <<"ERP.CreateUser", "err">>
  /\ LastLine.text = "Employee Created, ERPNext User Creation Failed"
  /\ result.created = 1
  /\ emps[Len(emps)].chat = list[i].id
  /\ list[i].email \notin erpUsers

\* The remote calls of the last iteration stay within the bounds C40 names
CallsPerRecord ==
  /\ JustProcessedEmployee =>
       /\ Len(CallsOf("GetUser")) <= 1
       /\ Len(CallsOf("GetUserByEmail")) <= 1
       /\ Len(CallsOf("SearchUsers")) <= 1
       /\ Len(CallsOf("GetUserByUsername")) <= 5
       /\ Len(CallsOf("CreateUser")) <= 2
       /\ Len(CallsOf("UpdateEmployee")) <= 1
       /\ Len(CallsOf("SendMail")) <= 1
       /\ Len(lastCalls) <= 12
  /\ JustProcessedUser =>
       /\ Len(CallsOf("GetEmployeeByEmail")) <= 1
       /\ Len(CallsOf("UpdateEmployee")) + Len(CallsOf("CreateEmployee")) <= 1
       /\ Len(CallsOf("ERP.GetUserByEmail")) <= 1
       /\ Len(CallsOf("ERP.CreateUser")) <= 1
       /\ Len(lastCalls) <= 4
  /\ pc = "loop" => i <= Len(list)
  /\ pc = "done" => i = Len(list) \/ result.timedOut

\* The steps a run has left at most: none when the handler has returned,
\* two for every record not yet started in the loop, more before the loop
Remaining ==
  CASE pc \in {"done", "aborted", "panic"} -> 0
    [] pc = "loop" -> 1 + 2 * (Len(list) - i) + B(~result.timedOut)
    [] pc = "fetch" -> 3 + 2 * (Len(emps) + Len(users))
    [] OTHER -> 4 + 2 * (Len(emps) + Len(users))

\* The handler has returned: the response or the error was written
Returned == pc \in {"done", "aborted"}

====
